---------------------------- MODULE Spec2Model ----------------------------
(***************************************************************************)
(* kcl2xrd: the line scanner of pkg/parser (ParseKCLFileWithSchemas) and   *)
(* the field-to-property mapper of pkg/generator.                          *)
(*                                                                         *)
(* Strings the code takes apart (a field type, a default literal) are      *)
(* sequences of tokens, so that HasPrefix, TrimPrefix, Split and Trim are  *)
(* computed and not assumed.  A source line is a record of the facts the   *)
(* code's regular expressions extract from it.                             *)
(***************************************************************************)
EXTENDS Integers, Sequences, FiniteSets, TLC

(***************************************************************************)
(* Bounds of the model.                                                    *)
(***************************************************************************)
\* number of input lines of a scanned file
MaxLines == 4
\* nesting of array brackets in the field types the mapper is run on
MaxArrayDepth == 2

(***************************************************************************)
(* Generic helpers.                                                        *)
(***************************************************************************)
Nil == <<>>
Ptr(v) == <<v>>

Range(s) == {s[i] : i \in 1..Len(s)}

Last(s) == s[Len(s)]

RECURSIVE SeqSum(_)
SeqSum(s) == IF s = <<>> THEN 0 ELSE Head(s) + SeqSum(Tail(s))

\* the increasing enumeration of a finite set of integers
RECURSIVE SortedSeq(_)
SortedSeq(S) ==
  IF S = {} THEN <<>>
  ELSE LET m == CHOOSE x \in S : \A y \in S : x <= y
       IN <<m>> \o SortedSeq(S \ {m})

(***************************************************************************)
(* Token strings: strings.TrimSpace, strings.Trim, strings.Contains,       *)
(* strings.Split as the code uses them, on sequences of tokens.            *)
(***************************************************************************)
RECURSIVE TrimLeft(_, _)
TrimLeft(s, cut) ==
  IF s # <<>> /\ Head(s) \in cut THEN TrimLeft(Tail(s), cut) ELSE s

RECURSIVE TrimRight(_, _)
TrimRight(s, cut) ==
  IF s # <<>> /\ Last(s) \in cut THEN TrimRight(SubSeq(s, 1, Len(s) - 1), cut) ELSE s

Trim(s, cut) == TrimRight(TrimLeft(s, cut), cut)

TrimSpace(s) == Trim(s, {" "})

Contains(s, tok) == \E i \in 1..Len(s) : s[i] = tok

\* the part of s before the first occurrence of tok (all of s when absent)
BeforeFirst(s, tok) ==
  IF Contains(s, tok)
  THEN SubSeq(s, 1, (CHOOSE i \in 1..Len(s) : s[i] = tok /\ \A j \in 1..(i - 1) : s[j] # tok) - 1)
  ELSE s

HasPrefix(s, tok) == s # <<>> /\ Head(s) = tok
HasSuffix(s, tok) == s # <<>> /\ Last(s) = tok
TrimPrefix(s, tok) == IF HasPrefix(s, tok) THEN Tail(s) ELSE s
TrimSuffix(s, tok) == IF HasSuffix(s, tok) THEN SubSeq(s, 1, Len(s) - 1) ELSE s


(***************************************************************************)
(* Numeric literals: strconv.Atoi on the tokens the inputs use.  Huge is a *)
(* run of digits that overflows int, so the \d+ patterns match it and Atoi *)
(* rejects it.                                                             *)
(***************************************************************************)
Huge == "99999999999999999999"

IntValue == [t \in {"0", "3", "5", "10", "-5"} |->
               CASE t = "0" -> 0 [] t = "3" -> 3 [] t = "5" -> 5
                 [] t = "10" -> 10 [] t = "-5" -> 0 - 5]

IsDigits(t) == t \in {"0", "3", "5", "10", Huge}

Atoi(t) == IF t \in DOMAIN IntValue THEN [ok |-> TRUE, v |-> IntValue[t]]
           ELSE [ok |-> FALSE, v |-> 0]

(***************************************************************************)
(* Source lines.  indent: the raw line starts with a space or a tab.  kind *)
(* names the shape of the trimmed line; the other components are what the  *)
(* regular expressions of ParseKCLFileWithSchemas capture from that shape. *)
(***************************************************************************)
NoLine == [indent |-> FALSE, kind |-> "blank", text |-> "", name |-> "", opt |-> FALSE,
           type |-> <<>>, def |-> <<>>, anns |-> <<>>, val |-> <<>>,
           isFormat |-> FALSE, fmt |-> <<>>, args |-> <<>>, cols |-> <<>>]

BlankL == NoLine
\* "# text"
CommentL(t) == [NoLine EXCEPT !.kind = "comment", !.text = "# " \o t, !.val = <<t>>]
\* "# @directive(arg) ...": anns is the sequence of directives on the line
AnnotL(t, ds) == [NoLine EXCEPT !.kind = "annot", !.text = "# " \o t, !.anns = ds]
\* a line holding the docstring delimiter
DocL == [NoLine EXCEPT !.kind = "doc", !.text = "triple-quote", !.indent = TRUE]
\* "schema Name:"
HeaderL(ind, n) == [NoLine EXCEPT !.kind = "header", !.indent = ind, !.name = n,
                                  !.text = "schema " \o n \o ":"]
\* "name?: type = default"
FieldL(ind, n, o, ty, d) == [NoLine EXCEPT !.kind = "field", !.indent = ind, !.name = n,
                                           !.opt = o, !.type = ty, !.def = d,
                                           !.text = n \o ": ..."]
\* any other statement (import, closing brace, ...)
TextL(ind, t) == [NoLine EXCEPT !.kind = "text", !.indent = ind, !.text = t]
\* _name = "literal"
VarL(n, v) == [NoLine EXCEPT !.kind = "var", !.name = n, !.val = <<v>>,
                             !.text = n \o " = " \o v]
\* __xrd_kind / __xrd_version / __xrd_group = "literal"
MetaL(k, n, v) == [NoLine EXCEPT !.kind = k, !.name = n, !.val = <<v>>,
                                 !.text = n \o " = " \o v]
\* __xrd_group = <expression>; isFormat: it has the "tmpl".format(args) shape
GroupExprL(isF, f, as) == [NoLine EXCEPT !.kind = "groupexpr", !.name = "__xrd_group",
                                         !.isFormat = isF, !.fmt = f, !.args = as,
                                         !.text = "__xrd_group = expr"]
\* __xrd_categories = [items]; an item is [q |-> it is quoted, s |-> its text]
CategoriesL(items) == [NoLine EXCEPT !.kind = "categories", !.name = "__xrd_categories",
                                     !.val = items, !.text = "__xrd_categories = [..]"]
\* __xrd_served / __xrd_referenceable = true|false|True|False
BoolL(k, n, v) == [NoLine EXCEPT !.kind = k, !.name = n, !.val = <<v>>,
                                 !.text = n \o " = " \o v]
\* __xrd_printer_columns = [cols]; each column is its ":"-separated parts
PrinterColumnsL(cs) == [NoLine EXCEPT !.kind = "printercolumns",
                                      !.name = "__xrd_printer_columns", !.cols = cs,
                                      !.text = "__xrd_printer_columns = [..]"]

\* strings.TrimSpace(line) as a token string: the empty string has no token
trimmedLine(line) == IF line.kind = "blank" THEN <<>> ELSE <<line.text>>

\* the regular expressions, as predicates on the line's shape
schemaRegex(line) == line.kind = "header"
fieldRegex(line) == line.kind = "field"
xrKindRegex(line) == line.kind = "xrkind"
xrVersionRegex(line) == line.kind = "xrversion"
groupRegex(line) == line.kind = "group"
groupExprRegex(line) == line.kind \in {"group", "groupexpr"}
categoriesRegex(line) == line.kind = "categories"
servedRegex(line) == line.kind = "served"
referenceableRegex(line) == line.kind = "referenceable"
printerColumnsRegex(line) == line.kind = "printercolumns"
\* ^\s*(_\w+)\s*=\s*['"](.*?)['"]\s*$ also matches the quoted __xrd_* assignments
varAssignRegex(line) == line.kind \in {"var", "xrkind", "xrversion", "group"}
IsCommentLine(line) == line.kind \in {"comment", "annot"}
HasDocDelimiter(line) == line.kind = "doc"
Indented(line) == line.indent

(***************************************************************************)
(* parser.Field, parser.Schema, parser.XRDMetadata.  A *int or *bool is    *)
(* Nil or Ptr(v); a string the code builds by joining is a token string.   *)
(***************************************************************************)
NewField(n, ty, req, d) ==
  [Name |-> n, Type |-> ty, Description |-> <<>>, Required |-> req, Default |-> d,
   Pattern |-> "", MinLength |-> Nil, MaxLength |-> Nil, Minimum |-> Nil,
   Maximum |-> Nil, MinItems |-> Nil, Enum |-> <<>>, Immutable |-> FALSE,
   CELValidations |-> <<>>, PreserveUnknownFields |-> FALSE, MapType |-> "",
   ListType |-> "", ListMapKeys |-> <<>>]

NewSchema(n) == [Name |-> n, Description |-> <<>>, Fields |-> <<>>, IsXRD |-> FALSE]

EmptyMetadata ==
  [XRKind |-> "", XRVersion |-> "", Group |-> <<>>, Categories |-> <<>>,
   PrinterColumns |-> <<>>, Served |-> Nil, Referenceable |-> Nil]

\* a string value as a token string
Tok(v) == IF v = "" THEN <<>> ELSE <<v>>

\* strings.Join(parts, sep), each part a token string
RECURSIVE Join(_, _)
Join(parts, sep) ==
  IF parts = <<>> THEN <<>>
  ELSE IF Len(parts) = 1 THEN Head(parts)
  ELSE Head(parts) \o <<sep>> \o Join(Tail(parts), sep)

(***************************************************************************)
(* applyValidationAnnotations.  A directive is [d |-> name, a |-> args]; a *)
(* pattern finds the first directive of its name whose argument has the    *)
(* shape the pattern asks for.                                             *)
(***************************************************************************)
NumericDirectives == {"minLength", "maxLength", "minimum", "maximum", "minItems"}

ShapeOk(dir) ==
  IF dir.d \in NumericDirectives THEN Len(dir.a) = 1 /\ IsDigits(dir.a[1]) ELSE TRUE

\* FindStringSubmatch of directive dname on an annotation line: Nil or Ptr(args)
FindDirective(annotation, dname) ==
  LET hits == {i \in 1..Len(annotation.anns) :
                 annotation.anns[i].d = dname /\ ShapeOk(annotation.anns[i])}
  IN IF hits = {} THEN Nil
     ELSE Ptr(annotation.anns[CHOOSE i \in hits : \A j \in hits : i <= j].a)

\* the same without the test of Atoi's error: a rejected number counts as 0
NumericAttrIgnoringError(old, annotation, dname) ==
  LET m == FindDirective(annotation, dname)
  IN IF m # Nil THEN Ptr(Atoi(m[1][1]).v) ELSE old

\* one numeric directive: set only when the pattern matches and Atoi succeeds
NumericAttr(old, annotation, dname) ==
  LET m == FindDirective(annotation, dname)
  IN IF m # Nil /\ Atoi(m[1][1]).ok THEN Ptr(Atoi(m[1][1]).v) ELSE old

StringAttr(old, annotation, dname) ==
  LET m == FindDirective(annotation, dname)
  IN IF m # Nil THEN m[1][1] ELSE old

ListAttr(old, annotation, dname) ==
  LET m == FindDirective(annotation, dname)
  IN IF m # Nil THEN m[1] ELSE old

applyOneAnnotation(field, annotation) ==
  [field EXCEPT
     !.Pattern = StringAttr(@, annotation, "pattern"),
     !.MinLength = NumericAttr(@, annotation, "minLength"),
     !.MaxLength = NumericAttr(@, annotation, "maxLength"),
     !.Minimum = NumericAttr(@, annotation, "minimum"),
     !.Maximum = NumericAttr(@, annotation, "maximum"),
     !.MinItems = NumericAttr(@, annotation, "minItems"),
     !.Enum = ListAttr(@, annotation, "enum"),
     !.Immutable = @ \/ FindDirective(annotation, "immutable") # Nil,
     !.CELValidations =
        LET m == FindDirective(annotation, "validate")
        IN IF m # Nil
           THEN Append(@, [Rule |-> m[1][1],
                           Message |-> IF Len(m[1]) > 1 THEN m[1][2] ELSE ""])
           ELSE @,
     !.PreserveUnknownFields = @ \/ FindDirective(annotation, "preserveUnknownFields") # Nil,
     !.MapType = StringAttr(@, annotation, "mapType"),
     !.ListType = StringAttr(@, annotation, "listType"),
     !.ListMapKeys = ListAttr(@, annotation, "listMapKeys")]

\* the same loop run from the last annotation of the buffer to the first
RECURSIVE applyValidationAnnotationsLastFirst(_, _)
applyValidationAnnotationsLastFirst(field, annotations) ==
  IF annotations = <<>> THEN field
  ELSE applyOneAnnotation(applyValidationAnnotationsLastFirst(field, Tail(annotations)),
                          Head(annotations))

RECURSIVE applyValidationAnnotations(_, _)
applyValidationAnnotations(field, annotations) ==
  IF annotations = <<>> THEN field
  ELSE applyValidationAnnotations(applyOneAnnotation(field, Head(annotations)),
                                  Tail(annotations))

\* xrdAnnotationRegex.MatchString over the pending annotations
xrdAnnotated(annotations) ==
  \E i \in 1..Len(annotations) : FindDirective(annotations[i], "xrd") # Nil

(***************************************************************************)
(* resolveFormatExpression: "" (here <<>>) when the line has not the       *)
(* format shape, an argument is no key of the variable table, or a         *)
(* placeholder is left over.                                               *)
(***************************************************************************)
\* strings.Split(argsStr, ","): the empty string yields one empty argument
SplitArgs(args) == IF args = <<>> THEN <<[q |-> FALSE, s |-> ""]>> ELSE args

\* strings.Replace(result, "{}", val, 1)
ReplaceFirst(s, val) ==
  IF Contains(s, "{}")
  THEN LET i == CHOOSE k \in 1..Len(s) : s[k] = "{}" /\ \A j \in 1..(k - 1) : s[j] # "{}"
       IN [s EXCEPT ![i] = val]
  ELSE s

RECURSIVE ReplaceAll(_, _)
ReplaceAll(s, vals) ==
  IF vals = <<>> THEN s ELSE ReplaceAll(ReplaceFirst(s, Head(vals)), Tail(vals))

\* mutant: the arguments that are bound are substituted and what is left of
\* the template is returned (no test of lines 571-576 and 586-589)
resolvePartially(line, vars) ==
  IF ~line.isFormat THEN <<>>
  ELSE LET args == SplitArgs(line.args)
           bound == SelectSeq(args, LAMBDA a : a.s \in DOMAIN vars)
       IN ReplaceAll(line.fmt, [i \in 1..Len(bound) |-> vars[bound[i].s]])

resolveFormatExpression(line, vars) ==
  IF ~line.isFormat THEN <<>>
  ELSE LET args == SplitArgs(line.args)
       IN IF \E i \in 1..Len(args) : args[i].s \notin DOMAIN vars THEN <<>>
          ELSE LET result == ReplaceAll(line.fmt, [i \in 1..Len(args) |-> vars[args[i].s]])
               IN IF Contains(result, "{}") THEN <<>> ELSE result

(***************************************************************************)
(* State of one run of ParseKCLFileWithSchemas.                            *)
(*                                                                         *)
(* Schemas are heap objects: heap[i] is the i-th Schema allocated, and     *)
(* schemas, primarySchema, currentSchema hold references (indices, 0 for   *)
(* nil).  currentField is Nil or <<i, k>>: a pointer to field k of heap[i].*)
(* input is the text read so far; marks and annLines record, for each line *)
(* read, what the scanner did with it and which buffered annotation lines  *)
(* a created field received.                                               *)
(***************************************************************************)
VARIABLES
  pc,                  \* "scan" while reading lines, "done" after the return
  input,               \* the lines read so far
  inSchema, inDocstring, docstringLines,
  heap, schemas, primarySchema, currentSchema, currentField,
  metadata, variables,
  pendingAnnotations, pendingComments,
  annLines,            \* the line number of each pending annotation
  marks,               \* per line read: ev, how it was handled; anns, the annotation
                       \* lines a created field took; at, the field created
  result,              \* the return value of ParseKCLFileWithSchemas
  gen                  \* the state of one run of the mapper (used by SpecGen)

scanVars == <<pc, input, inSchema, inDocstring, docstringLines, heap, schemas,
              primarySchema, currentSchema, currentField, metadata, variables,
              pendingAnnotations, pendingComments, annLines, marks, result>>

vars == <<scanVars, gen>>

NoResult == [returned |-> FALSE, err |-> "", Schemas |-> <<>>, Primary |-> 0,
             Metadata |-> EmptyMetadata]

ScanInit ==
  /\ pc = "scan"
  /\ input = <<>>
  /\ inSchema = FALSE
  /\ inDocstring = FALSE
  /\ docstringLines = <<>>
  /\ heap = <<>>
  /\ schemas = <<>>
  /\ primarySchema = 0
  /\ currentSchema = 0
  /\ currentField = Nil
  /\ metadata = EmptyMetadata
  /\ variables = <<>>
  /\ pendingAnnotations = <<>>
  /\ pendingComments = <<>>
  /\ annLines = <<>>
  /\ marks = <<>>
  /\ result = NoResult

\* a map with key k set to v
MapPut(m, k, v) == [x \in DOMAIN m \cup {k} |-> IF x = k THEN v ELSE m[x]]

\* lines 162-168: outside a schema a quoted assignment to _name is recorded
VarsAfter(line) ==
  IF ~inSchema /\ varAssignRegex(line)
  THEN MapPut(variables, line.name, line.val[1])
  ELSE variables

\* lines 170-231: the metadata patterns that end the iteration with continue
MetadataMatch(line) ==
  \/ xrKindRegex(line) \/ xrVersionRegex(line) \/ groupRegex(line)
  \/ groupExprRegex(line) \/ categoriesRegex(line) \/ servedRegex(line)
  \/ referenceableRegex(line) \/ printerColumnsRegex(line)

\* mutant: no test for the end of the schema body (lines 298-303 left out)
HandlerWithoutExit(line) ==
  IF trimmedLine(line) = <<>> /\ ~inDocstring THEN "blank"
  ELSE IF ~inSchema /\ MetadataMatch(line) THEN "metadata"
  ELSE IF IsCommentLine(line) /\ ~inDocstring THEN "comment"
  ELSE IF HasDocDelimiter(line) THEN "delimiter"
  ELSE IF inDocstring THEN "doctext"
  ELSE IF schemaRegex(line) THEN "header"
  ELSE IF inSchema /\ currentSchema # 0 /\ fieldRegex(line) THEN "field"
  ELSE "other"

\* the branch of the loop body (lines 148-352) that handles the line, in the
\* order the code tests them
Handler(line) ==
  IF trimmedLine(line) = <<>> /\ ~inDocstring THEN "blank"
  ELSE IF ~inSchema /\ MetadataMatch(line) THEN "metadata"
  ELSE IF IsCommentLine(line) /\ ~inDocstring THEN "comment"
  ELSE IF HasDocDelimiter(line) THEN "delimiter"
  ELSE IF inDocstring THEN "doctext"
  ELSE IF schemaRegex(line) THEN "header"
  ELSE IF inSchema /\ ~Indented(line) THEN "exit"
  ELSE IF inSchema /\ currentSchema # 0 /\ fieldRegex(line) THEN "field"
  ELSE "other"

\* the longest file read: MaxLines lines, and the lines a scan of nested
\* declarations (gen.pc = "scan") reads beyond them
LineLimit == IF gen # Nil /\ gen.pc = "scan" THEN MaxLines + gen.more ELSE MaxLines

\* scanner.Scan() delivers the next line
Read(line, handler, ev, applied) ==
  /\ pc = "scan"
  /\ Len(input) < LineLimit
  /\ Handler(line) = handler
  /\ pc' = pc
  /\ input' = Append(input, line)
  /\ marks' = Append(marks, [ev |-> ev, anns |-> applied,
                             at |-> IF ev = "field"
                                    THEN <<currentSchema, Len(heap[currentSchema].Fields) + 1>>
                                    ELSE Nil])

\* the same with the description buffer emptied whether a schema is open or not
BlankLineClearing(line) ==
  /\ Read(line, "blank", "blank", <<>>)
  /\ pendingComments' = <<>>
  /\ UNCHANGED <<inSchema, inDocstring, docstringLines, heap, schemas, primarySchema,
                 currentSchema, currentField, metadata, variables, pendingAnnotations,
                 annLines, result, gen>>

\* lines 152-159
BlankLine(line) ==
  /\ Read(line, "blank", "blank", <<>>)
  /\ pendingComments' = IF ~inSchema THEN <<>> ELSE pendingComments
  /\ UNCHANGED <<inSchema, inDocstring, docstringLines, heap, schemas, primarySchema,
                 currentSchema, currentField, metadata, variables, pendingAnnotations,
                 annLines, result, gen>>

\* strings.Split / TrimSpace / Trim of a category list
parseCategories(items) ==
  IF items = <<>> THEN <<"">> ELSE [i \in 1..Len(items) |-> items[i].s]

\* lines 216-229: a column needs at least three parts
parsePrinterColumn(parts) ==
  [Name |-> parts[1], Type |-> parts[2], JSONPath |-> parts[3],
   Description |-> IF Len(parts) >= 4 THEN parts[4] ELSE ""]

RECURSIVE appendPrinterColumns(_, _)
appendPrinterColumns(cols, columnStrs) ==
  IF columnStrs = <<>> THEN cols
  ELSE appendPrinterColumns(
         IF Len(Head(columnStrs)) >= 3
         THEN Append(cols, parsePrinterColumn(Head(columnStrs))) ELSE cols,
         Tail(columnStrs))

MetadataAfter(line) ==
  CASE xrKindRegex(line) -> [metadata EXCEPT !.XRKind = line.val[1]]
    [] xrVersionRegex(line) -> [metadata EXCEPT !.XRVersion = line.val[1]]
    [] groupRegex(line) -> [metadata EXCEPT !.Group = Tok(line.val[1])]
    [] groupExprRegex(line) /\ ~groupRegex(line) ->
         LET resolvedGroup == resolveFormatExpression(line, VarsAfter(line))
         IN IF resolvedGroup # <<>> THEN [metadata EXCEPT !.Group = resolvedGroup]
            ELSE metadata
    [] categoriesRegex(line) -> [metadata EXCEPT !.Categories = parseCategories(line.val)]
    [] servedRegex(line) ->
         [metadata EXCEPT !.Served = Ptr(line.val[1] \in {"true", "True"})]
    [] referenceableRegex(line) ->
         [metadata EXCEPT !.Referenceable = Ptr(line.val[1] \in {"true", "True"})]
    [] printerColumnsRegex(line) ->
         [metadata EXCEPT !.PrinterColumns = appendPrinterColumns(@, line.cols)]

\* lines 161-232
MetadataLine(line) ==
  /\ Read(line, "metadata", "metadata", <<>>)
  /\ variables' = VarsAfter(line)
  /\ metadata' = MetadataAfter(line)
  /\ UNCHANGED <<inSchema, inDocstring, docstringLines, heap, schemas, primarySchema,
                 currentSchema, currentField, pendingAnnotations, pendingComments,
                 annLines, result, gen>>

\* lines 234-247
CommentLine(line) ==
  /\ Read(line, "comment", IF line.kind = "annot" THEN "annotation" ELSE "comment", <<>>)
  /\ variables' = VarsAfter(line)
  /\ IF line.kind = "annot"
     THEN /\ pendingAnnotations' = Append(pendingAnnotations, line)
          /\ annLines' = Append(annLines, Len(input) + 1)
          /\ UNCHANGED pendingComments
     ELSE /\ pendingComments' =
               IF inSchema THEN Append(pendingComments, Tok(line.val[1]))
               ELSE pendingComments
          /\ UNCHANGED <<pendingAnnotations, annLines>>
  /\ UNCHANGED <<inSchema, inDocstring, docstringLines, heap, schemas, primarySchema,
                 currentSchema, currentField, metadata, result, gen>>

\* lines 252-258: the closing delimiter hands the buffered text out
heapAfterDocstring ==
  LET text == Join(docstringLines, " ")
  IN IF currentField # Nil
     THEN [heap EXCEPT ![currentField[1]].Fields[currentField[2]].Description = text]
     ELSE IF currentSchema # 0 /\ heap[currentSchema].Description = <<>>
     THEN [heap EXCEPT ![currentSchema].Description = text]
     ELSE heap

\* lines 249-263
DocstringDelimiter(line) ==
  /\ Read(line, "delimiter", IF inDocstring THEN "docclose" ELSE "docopen", <<>>)
  /\ variables' = VarsAfter(line)
  /\ IF inDocstring
     THEN /\ inDocstring' = FALSE
          /\ heap' = heapAfterDocstring
          /\ docstringLines' = <<>>
     ELSE /\ inDocstring' = TRUE
          /\ UNCHANGED <<heap, docstringLines>>
  /\ UNCHANGED <<inSchema, schemas, primarySchema, currentSchema, currentField, metadata,
                 pendingAnnotations, pendingComments, annLines, result, gen>>

\* lines 265-268
DocstringText(line) ==
  /\ Read(line, "doctext", "doctext", <<>>)
  /\ variables' = VarsAfter(line)
  /\ docstringLines' = Append(docstringLines, trimmedLine(line))
  /\ UNCHANGED <<inSchema, inDocstring, heap, schemas, primarySchema, currentSchema,
                 currentField, metadata, pendingAnnotations, pendingComments, annLines,
                 result, gen>>

\* mutant: a name already in the table keeps its first schema
schemasKeepFirst ==
  IF currentSchema # 0 /\ heap[currentSchema].Name \notin DOMAIN schemas
  THEN MapPut(schemas, heap[currentSchema].Name, currentSchema)
  ELSE schemas

\* mutant: the first schema saved stays primary
primaryKeepsFirst == IF primarySchema # 0 THEN primarySchema ELSE currentSchema

\* lines 273-276 and 359-362: the open schema goes into the table and becomes primary
schemasAfterSave == 
  IF currentSchema # 0 THEN MapPut(schemas, heap[currentSchema].Name, currentSchema)
  ELSE schemas

primaryAfterSave == IF currentSchema # 0 THEN currentSchema ELSE primarySchema

\* lines 279-290: the Schema a header allocates
openedSchema(line) ==
  [NewSchema(line.name) EXCEPT !.IsXRD = xrdAnnotated(pendingAnnotations)]

\* lines 270-296
SchemaHeader(line) ==
  /\ Read(line, "header", "header", <<>>)
  /\ variables' = VarsAfter(line)
  /\ schemas' = schemasAfterSave
  /\ primarySchema' = primaryAfterSave
  /\ heap' = Append(heap, openedSchema(line))
  /\ currentSchema' = Len(heap) + 1
  /\ pendingAnnotations' = <<>>
  /\ annLines' = <<>>
  /\ pendingComments' = <<>>
  /\ inSchema' = TRUE
  /\ UNCHANGED <<inDocstring, docstringLines, currentField, metadata, result, gen>>

\* lines 298-303; the field branch is then skipped because inSchema is false
ExitSchema(line) ==
  /\ Read(line, "exit", "exit", <<>>)
  /\ variables' = VarsAfter(line)
  /\ inSchema' = FALSE
  /\ currentField' = Nil
  /\ UNCHANGED <<inDocstring, docstringLines, heap, schemas, primarySchema, currentSchema,
                 metadata, pendingAnnotations, pendingComments, annLines, result, gen>>

\* lines 316-320: the type up to the first comma
cleanType(type) ==
  IF Contains(TrimSpace(type), ",") THEN TrimSpace(BeforeFirst(TrimSpace(type), ","))
  ELSE TrimSpace(type)

\* lines 311-326: the default without a trailing inline comment
cleanDefault(def) ==
  IF TrimSpace(def) # <<>> /\ Contains(TrimSpace(def), "#")
  THEN TrimSpace(BeforeFirst(TrimSpace(def), "#"))
  ELSE TrimSpace(def)

\* lines 328-345: the Field a declaration line creates
createdField(line) ==
  LET field == NewField(line.name, cleanType(line.type), ~line.opt, cleanDefault(line.def))
      described == IF Len(pendingComments) > 0
                   THEN [field EXCEPT !.Description = Join(pendingComments, "\n")]
                   ELSE field
  IN applyValidationAnnotations(described, pendingAnnotations)

\* mutant: the field is put in front of the list
fieldsAfterPrepend(fields, field) == <<field>> \o fields

\* line 348: the field goes to the end of the open schema's list
fieldsAfterAppend(fields, field) == Append(fields, field)

\* mutant: the buffer is not cleared
annotationsKept == pendingAnnotations

\* line 346: the annotation buffer after a field took it
annotationsAfterField == <<>>

\* lines 305-351
FieldLine(line) ==
  /\ Read(line, "field", "field", annLines)
  /\ variables' = VarsAfter(line)
  /\ heap' = [heap EXCEPT ![currentSchema].Fields = fieldsAfterAppend(@, createdField(line))]
  /\ currentField' = <<currentSchema, Len(heap[currentSchema].Fields) + 1>>
  /\ pendingComments' = <<>>
  /\ pendingAnnotations' = annotationsAfterField
  /\ annLines' = IF annotationsAfterField = <<>> THEN <<>> ELSE annLines
  /\ UNCHANGED <<inSchema, inDocstring, docstringLines, schemas, primarySchema,
                 currentSchema, metadata, result, gen>>

\* a line no branch acts on
OtherLine(line) ==
  /\ Read(line, "other", "other", <<>>)
  /\ variables' = VarsAfter(line)
  /\ UNCHANGED <<inSchema, inDocstring, docstringLines, heap, schemas, primarySchema,
                 currentSchema, currentField, metadata, pendingAnnotations,
                 pendingComments, annLines, result, gen>>

(***************************************************************************)
(* evaluateMetadataWithKCL runs the KCL runtime on the file; what it       *)
(* returns is outside the scanner, so its outcome is any of KclOutcomes:   *)
(* nothing (the evaluation failed or found no variable) or evaluated       *)
(* values.                                                                 *)
(***************************************************************************)
KclOutcomes ==
  {EmptyMetadata,
   [EmptyMetadata EXCEPT !.XRKind = "Evaluated", !.Group = <<"evaluated.org">>]}

\* lines 368-387: evaluated values replace scanned ones
mergeMetadata(meta, kclMetadata) ==
  [meta EXCEPT
     !.XRKind = IF kclMetadata.XRKind # "" THEN kclMetadata.XRKind ELSE @,
     !.Group = IF kclMetadata.Group # <<>> THEN kclMetadata.Group ELSE @,
     !.XRVersion = IF kclMetadata.XRVersion # "" THEN kclMetadata.XRVersion ELSE @,
     !.Categories = IF Len(kclMetadata.Categories) > 0 THEN kclMetadata.Categories ELSE @,
     !.Served = IF kclMetadata.Served # Nil THEN kclMetadata.Served ELSE @,
     !.Referenceable = IF kclMetadata.Referenceable # Nil THEN kclMetadata.Referenceable
                       ELSE @]

\* lines 364-366
NoSchemaError == "no schema found in file"

\* mutant: the test for a missing schema (lines 364-366) is left out
parseResultUnchecked(kclMetadata) ==
  [returned |-> TRUE, err |-> "", Schemas |-> schemasAfterSave,
   Primary |-> primaryAfterSave, Metadata |-> mergeMetadata(metadata, kclMetadata)]

\* lines 364-393: the error, or the ParseResult
parseResult(kclMetadata) ==
  IF primaryAfterSave = 0
  THEN [NoResult EXCEPT !.returned = TRUE, !.err = NoSchemaError]
  ELSE [returned |-> TRUE, err |-> "", Schemas |-> schemasAfterSave,
        Primary |-> primaryAfterSave, Metadata |-> mergeMetadata(metadata, kclMetadata)]

\* lines 354-393: end of input
Finish(kclMetadata) ==
  /\ pc = "scan"
  /\ pc' = "done"
  /\ schemas' = schemasAfterSave
  /\ primarySchema' = primaryAfterSave
  /\ metadata' = parseResult(kclMetadata).Metadata
  /\ result' = parseResult(kclMetadata)
  /\ UNCHANGED <<input, marks, inSchema, inDocstring, docstringLines, heap, currentSchema,
                 currentField, variables, pendingAnnotations, pendingComments, annLines,
                 gen>>

(***************************************************************************)
(* The input alphabet of Spec: one line of every shape the loop body tells  *)
(* apart, with two schema names and three field declarations.              *)
(***************************************************************************)
Directive(d, a) == [d |-> d, a |-> a]

Lines ==
  {BlankL,
   CommentL("note"),
   AnnotL("@immutable", <<Directive("immutable", <<>>)>>),
   DocL,
   HeaderL(FALSE, "A"),
   HeaderL(FALSE, "B"),
   FieldL(TRUE, "x", FALSE, <<"str">>, <<>>),
   FieldL(TRUE, "y", TRUE, <<"int", ",", " ", "note">>, <<"5", " ", "#", "c">>),
   FieldL(FALSE, "z", FALSE, <<"str">>, <<>>),
   TextL(FALSE, "import something"),
   MetaL("xrkind", "__xrd_kind", "K")}

ScanNext(L) ==
  \/ \E line \in L :
       \/ BlankLine(line)
       \/ MetadataLine(line)
       \/ CommentLine(line)
       \/ DocstringDelimiter(line)
       \/ DocstringText(line)
       \/ SchemaHeader(line)
       \/ ExitSchema(line)
       \/ FieldLine(line)
       \/ OtherLine(line)
  \/ \E k \in KclOutcomes : Finish(k)

Init == ScanInit /\ gen = <<>>

Next == ScanNext(Lines)

Spec == Init /\ [][Next]_vars

(***************************************************************************)
(* What the input says, read off the text alone.                           *)
(*                                                                         *)
(* A line is inside a block comment when an odd number of delimiter lines  *)
(* precede it.  A header line is a line of header shape outside block      *)
(* comments.  The body of a header runs to the next header or to the first *)
(* line outside comments that is not blank and not indented.               *)
(***************************************************************************)
InBlockComment(inp, i) ==
  Cardinality({j \in 1..(i - 1) : inp[j].kind = "doc"}) % 2 = 1

HeaderAt(inp, i) == inp[i].kind = "header" /\ ~InBlockComment(inp, i)

Headers(inp) == {i \in 1..Len(inp) : HeaderAt(inp, i)}

\* a line outside comments that is neither blank nor indented
UnindentedAt(inp, i) ==
  /\ ~InBlockComment(inp, i)
  /\ inp[i].kind \notin {"blank", "comment", "annot", "doc"}
  /\ ~inp[i].indent

\* line i lies in the body of header h
InBody(inp, h, i) ==
  /\ h < i
  /\ \A j \in (h + 1)..i : ~HeaderAt(inp, j) /\ ~UnindentedAt(inp, j)

\* the field declarations of the body of header h, as line numbers in order
BodyFieldLines(inp, h) ==
  SortedSeq({i \in (h + 1)..Len(inp) :
               InBody(inp, h, i) /\ inp[i].kind = "field" /\ ~InBlockComment(inp, i)})

\* what a declaration line declares
Declared(line) ==
  [Name |-> line.name, Type |-> cleanType(line.type), Required |-> ~line.opt,
   Default |-> cleanDefault(line.def)]

DeclaredPart(field) ==
  [Name |-> field.Name, Type |-> field.Type, Required |-> field.Required,
   Default |-> field.Default]

BodyFields(inp, h) ==
  LET ls == BodyFieldLines(inp, h) IN [k \in 1..Len(ls) |-> Declared(inp[ls[k]])]

FieldsOf(schema) == [k \in 1..Len(schema.Fields) |-> DeclaredPart(schema.Fields[k])]

\* the number of header lines up to line i: the heap object header i allocates
ObjectOf(inp, i) == Cardinality({j \in Headers(inp) : j <= i})

LastHeader(inp) == CHOOSE i \in Headers(inp) : \A j \in Headers(inp) : j <= i

LastHeaderNamed(inp, n) ==
  CHOOSE i \in Headers(inp) :
    inp[i].name = n /\ \A j \in Headers(inp) : inp[j].name = n => j <= i

HeaderNames(inp) == {inp[i].name : i \in Headers(inp)}

Done == pc = "done" /\ result.returned

(***************************************************************************)
(* C1. An input without a schema header line makes the parse return the    *)
(* "no schema found" error and no ParseResult (no table, no primary        *)
(* schema, no metadata), whatever other lines it has.                      *)
(***************************************************************************)
C1_NoSchemaIsAnError ==
  (Done /\ Headers(input) = {}) =>
     /\ result.err = NoSchemaError
     /\ result.Primary = 0
     /\ result.Schemas = <<>>
     /\ result.Metadata = EmptyMetadata

C1_Witness ==
  /\ Done
  /\ Headers(input) = {}
  /\ \E i, j, k \in 1..Len(input) :
       /\ input[i].kind = "comment"
       /\ input[j].kind = "xrkind"
       /\ input[k].kind = "text"
  /\ result.err = NoSchemaError

(***************************************************************************)
(* C2. An input with a schema header parses without error; Primary is the  *)
(* schema the last header line opened, and the table maps Primary's name   *)
(* to that same object.                                                    *)
(***************************************************************************)
C2_PrimaryIsLastHeader ==
  (Done /\ Headers(input) # {}) =>
     /\ result.err = ""
     /\ result.Primary = ObjectOf(input, LastHeader(input))
     /\ heap[result.Primary].Name = input[LastHeader(input)].name
     /\ heap[result.Primary].Name \in DOMAIN result.Schemas
     /\ result.Schemas[heap[result.Primary].Name] = result.Primary

C2_Witness ==
  /\ Done
  /\ Cardinality(Headers(input)) >= 3
  /\ Cardinality(HeaderNames(input)) = 2
  /\ result.Primary = 3

(***************************************************************************)
(* C3. With N header lines of pairwise distinct names the table has        *)
(* exactly N entries, and the entry of each header lists exactly the field *)
(* declarations of that header's body, in the order of the lines.          *)
(***************************************************************************)
DistinctNames(inp) == Cardinality(HeaderNames(inp)) = Cardinality(Headers(inp))

C3_TableHoldsBodies ==
  (Done /\ Headers(input) # {} /\ DistinctNames(input)) =>
     /\ Cardinality(DOMAIN result.Schemas) = Cardinality(Headers(input))
     /\ \A h \in Headers(input) :
          /\ input[h].name \in DOMAIN result.Schemas
          /\ heap[result.Schemas[input[h].name]].Name = input[h].name
          /\ FieldsOf(heap[result.Schemas[input[h].name]]) = BodyFields(input, h)

C3_Witness ==
  /\ Done
  /\ DistinctNames(input)
  /\ Cardinality(Headers(input)) = 2
  /\ \E h \in Headers(input) :
       /\ Len(BodyFields(input, h)) = 2
       /\ BodyFields(input, h)[1] # BodyFields(input, h)[2]
       /\ FieldsOf(heap[result.Schemas[input[h].name]]) = BodyFields(input, h)

(***************************************************************************)
(* C4. When a name is declared by more than one header, no error is        *)
(* raised and the table entry of the name is the object of the last of     *)
(* these headers, holding the fields of that header's body and nothing of  *)
(* an earlier declaration.                                                 *)
(***************************************************************************)
Redeclared(inp, n) == Cardinality({i \in Headers(inp) : inp[i].name = n}) > 1

C4_LastDeclarationWins ==
  Done =>
    \A n \in HeaderNames(input) :
      Redeclared(input, n) =>
        /\ result.err = ""
        /\ n \in DOMAIN result.Schemas
        /\ result.Schemas[n] = ObjectOf(input, LastHeaderNamed(input, n))
        /\ FieldsOf(heap[result.Schemas[n]]) = BodyFields(input, LastHeaderNamed(input, n))

C4_Witness ==
  /\ Done
  /\ \E n \in HeaderNames(input) :
       /\ Redeclared(input, n)
       /\ \E h \in Headers(input) :
            /\ input[h].name = n
            /\ h # LastHeaderNamed(input, n)
            /\ Len(BodyFields(input, h)) = 1
            /\ Len(BodyFields(input, LastHeaderNamed(input, n))) = 1
            /\ BodyFields(input, h) # BodyFields(input, LastHeaderNamed(input, n))
       /\ Len(heap[result.Schemas[n]].Fields) = 1

(***************************************************************************)
(* C5. A line outside comments that is neither blank nor indented ends the *)
(* schema being scanned: reading that line, or any later line before the   *)
(* next header line, adds no field to any schema and leaves the scanner    *)
(* outside a schema, also when the line read is an indented declaration.   *)
(***************************************************************************)
FieldCount == SeqSum([i \in 1..Len(heap) |-> Len(heap[i].Fields)])

\* the last line of inp is an unindented line, or follows one with no header
\* line in between
AfterBodyEnd(inp) ==
  \E j \in 1..Len(inp) :
    /\ UnindentedAt(inp, j)
    /\ \A k \in j..Len(inp) : ~HeaderAt(inp, k)

C5_UnindentedLineEndsSchema ==
  [][(Len(input') = Len(input) + 1 /\ AfterBodyEnd(input'))
       => (FieldCount' = FieldCount /\ ~inSchema')]_vars

C5_Witness ==
  /\ Len(input) >= 4
  /\ HeaderAt(input, 1)
  /\ Len(heap[1].Fields) = 1
  /\ UnindentedAt(input, 3)
  /\ input[3].kind # "field"
  /\ input[4].kind = "field" /\ input[4].indent /\ ~InBlockComment(input, 4)
  /\ FieldCount = 1
  /\ ~inSchema

(***************************************************************************)
(* C6. A created field receives exactly the annotation lines buffered      *)
(* since the last header or field, and, when created, the description      *)
(* lines buffered since then; right after a field is created and right     *)
(* after a header is processed both buffers are empty.                     *)
(***************************************************************************)
\* the last line before i that opened a schema or created a field
PreviousMark(i) ==
  CHOOSE k \in 0..(i - 1) :
    /\ k > 0 => marks[k].ev \in {"header", "field"}
    /\ \A j \in (k + 1)..(i - 1) : marks[j].ev \notin {"header", "field"}

AnnotationLinesSince(inp, k, i) ==
  SortedSeq({l \in (k + 1)..(i - 1) : inp[l].kind = "annot" /\ ~InBlockComment(inp, l)})

CommentLinesSince(inp, k, i) ==
  SortedSeq({l \in (k + 1)..(i - 1) : inp[l].kind = "comment" /\ ~InBlockComment(inp, l)})

AnnotationPart(field) == [field EXCEPT !.Description = <<>>]

\* the field that line i created
FieldAt(i) == heap[marks[i].at[1]].Fields[marks[i].at[2]]

C6_AnnotationsStayWithTheirField ==
  /\ (marks # <<>> /\ pc = "scan" /\ Last(marks).ev \in {"header", "field"}) =>
        pendingAnnotations = <<>> /\ pendingComments = <<>>
  /\ \A i \in 1..Len(marks) :
       marks[i].ev = "field" =>
         LET ls == AnnotationLinesSince(input, PreviousMark(i), i)
             d == Declared(input[i])
         IN /\ marks[i].anns = ls
            /\ AnnotationPart(FieldAt(i)) =
                 applyValidationAnnotations(
                   NewField(d.Name, d.Type, d.Required, d.Default),
                   [k \in 1..Len(ls) |-> input[ls[k]]])
  /\ (marks # <<>> /\ pc = "scan" /\ Last(marks).ev = "field") =>
        LET cs == CommentLinesSince(input, PreviousMark(Len(marks)), Len(marks))
        IN FieldAt(Len(marks)).Description =
             Join([k \in 1..Len(cs) |-> Tok(input[cs[k]].val[1])], "\n")

C6_Witness ==
  /\ Len(marks) = 4
  /\ marks[1].ev = "header"
  /\ marks[2].ev = "annotation" /\ FindDirective(input[2], "immutable") # Nil
  /\ marks[3].ev = "field"
  /\ marks[4].ev = "field"
  /\ heap[1].Fields[1].Immutable
  /\ ~heap[1].Fields[2].Immutable

(***************************************************************************)
(* pkg/generator: the field-to-property mapper.                            *)
(*                                                                         *)
(* A PropertySchema is a record; its properties map is a function from     *)
(* field names to nodes (a nil map and an empty map are both the function  *)
(* with the empty domain: the encoder omits either).  A pointer component  *)
(* is Nil or Ptr(v).  A default value is [tag, v]: the Go type the         *)
(* interface{} holds and the value.                                        *)
(***************************************************************************)
EmptyNode ==
  [Type |-> "", Description |-> <<>>, Properties |-> <<>>, Required |-> <<>>,
   Items |-> Nil, Format |-> "", Default |-> Nil, Pattern |-> "",
   MinLength |-> Nil, MaxLength |-> Nil, Minimum |-> Nil, Maximum |-> Nil,
   Enum |-> <<>>, XKubernetesValidations |-> <<>>, XKubernetesImmutable |-> Nil,
   XKubernetesPreserveUnknownFields |-> Nil, XKubernetesMapType |-> "",
   XKubernetesListType |-> "", XKubernetesListMapKeys |-> <<>>]

\* the run aborted: the goroutine stack outgrew its limit
StackOverflow == [EmptyNode EXCEPT !.Type = "fatal error: stack overflow"]

\* parser.Field{Type: t}
TypeOnlyField(t) == NewField("", t, FALSE, <<>>)

\* strconv.ParseFloat on the tokens the inputs use: the number parsed
FloatValue == [t \in {"0", "3", "5", "10", "-5", "5.0", "1.5"} |->
                 CASE t = "5.0" -> "5" [] OTHER -> t]

ParseFloat(t) == IF t \in DOMAIN FloatValue THEN [ok |-> TRUE, v |-> FloatValue[t]]
                 ELSE [ok |-> FALSE, v |-> "0"]

\* one token of a token string, or a string no parse accepts
OneToken(s) == IF Len(s) = 1 THEN s[1] ELSE "not a literal"

\* lines 332-364: the default of the node
defaultAfter(field, schema) ==
  IF field.Default # <<>> /\ field.Default # <<"Undefined">>
  THEN LET defaultValue == Trim(field.Default, {"\""})
           asString == Ptr([tag |-> "string", v |-> defaultValue])
       IN CASE schema.Type = "integer" ->
                 IF Atoi(OneToken(defaultValue)).ok
                 THEN Ptr([tag |-> "int", v |-> Atoi(OneToken(defaultValue)).v])
                 ELSE asString
            [] schema.Type = "boolean" ->
                 IF defaultValue \in {<<"True">>, <<"true">>}
                 THEN Ptr([tag |-> "bool", v |-> TRUE])
                 ELSE IF defaultValue \in {<<"False">>, <<"false">>}
                      THEN Ptr([tag |-> "bool", v |-> FALSE])
                      ELSE schema.Default
            [] schema.Type = "number" ->
                 IF ParseFloat(OneToken(defaultValue)).ok
                 THEN Ptr([tag |-> "float64", v |-> ParseFloat(OneToken(defaultValue)).v])
                 ELSE asString
            [] OTHER -> asString
  ELSE schema.Default

\* lines 396-399: the preserve-unknown-fields marker of the node itself
preserveAfter(field, schema) ==
  IF field.PreserveUnknownFields THEN Ptr(TRUE)
  ELSE schema.XKubernetesPreserveUnknownFields

\* lines 330-423
applyFieldValidationsAndDefaults(field, schema) ==
  [schema EXCEPT
     !.Default = defaultAfter(field, schema),
     !.Pattern = IF field.Pattern # "" THEN field.Pattern ELSE @,
     !.MinLength = IF field.MinLength # Nil THEN field.MinLength ELSE @,
     !.MaxLength = IF field.MaxLength # Nil THEN field.MaxLength ELSE @,
     !.Minimum = IF field.Minimum # Nil THEN field.Minimum ELSE @,
     !.Maximum = IF field.Maximum # Nil THEN field.Maximum ELSE @,
     !.Enum = IF Len(field.Enum) > 0 THEN field.Enum ELSE @,
     !.XKubernetesImmutable = IF field.Immutable THEN Ptr(TRUE) ELSE @,
     !.XKubernetesPreserveUnknownFields = preserveAfter(field, schema),
     !.XKubernetesMapType = IF field.MapType # "" THEN field.MapType ELSE @,
     !.XKubernetesListType = IF field.ListType # "" THEN field.ListType ELSE @,
     !.XKubernetesListMapKeys = IF Len(field.ListMapKeys) > 0 THEN field.ListMapKeys ELSE @,
     !.XKubernetesValidations =
        @ \o [i \in 1..Len(field.CELValidations) |->
                [Rule |-> field.CELValidations[i].Rule,
                 Message |-> field.CELValidations[i].Message]]]

\* lines 320-322
describedBy(field, schema) ==
  IF field.Description # <<>> THEN [schema EXCEPT !.Description = field.Description]
  ELSE schema

\* the type strings the switch compares with
AnyMap == <<"{", "any", ":", "any", "}">>

\* mutant: every bracket is stripped, not one pair
elementTypeUnbracketed(type) == Trim(type, {"[", "]"})

\* line 257
elementType(type) == TrimSuffix(TrimPrefix(type, "["), "]")

\* lines 262-270: the items of an array of arbitrary objects
arbitraryObjectItems(field) ==
  [EmptyNode EXCEPT
     !.Type = "object",
     !.XKubernetesPreserveUnknownFields =
        IF field.PreserveUnknownFields THEN Ptr(TRUE) ELSE Nil]

\* lines 275-287: a map type
mapNode(field) ==
  [EmptyNode EXCEPT
     !.Type = "object",
     !.XKubernetesPreserveUnknownFields =
        IF TrimSpace(Trim(field.Type, {"{", "}"})) = <<"any", ":", "any">>
           /\ field.PreserveUnknownFields
        THEN Ptr(TRUE) ELSE Nil]

\* line 290: schemas != nil && schemas[field.Type] != nil
inTable(type, table) == Len(type) = 1 /\ type[1] \in DOMAIN table

\* mutant: every nested field is listed as required
requiredAlways(required, nestedField) == Append(required, nestedField.Name)

\* lines 304-306
requiredAfter(required, nestedField) ==
  IF nestedField.Required THEN Append(required, nestedField.Name) ELSE required

\* lines 241-327.  path: the schema names whose expansion is under way.  The
\* expansion of a schema depends on the table alone, so meeting a name of the
\* path again means the recursion never ends, and what ends it is the stack.
RECURSIVE convertFieldToPropertySchemaWithSchemas(_, _, _)
RECURSIVE expandFields(_, _, _, _)

\* lines 301-307: the loop over the fields of the nested schema
expandFields(fields, table, path, schema) ==
  IF fields = <<>> THEN schema
  ELSE LET nestedField == Head(fields)
           nestedProp == convertFieldToPropertySchemaWithSchemas(nestedField, table, path)
       IN IF nestedProp = StackOverflow THEN StackOverflow
          ELSE expandFields(Tail(fields), table, path,
                 [schema EXCEPT
                    !.Properties = MapPut(@, nestedField.Name, nestedProp),
                    !.Required = requiredAfter(@, nestedField)])

convertFieldToPropertySchemaWithSchemas(field, table, path) ==
  LET finished(schema) == applyFieldValidationsAndDefaults(field, describedBy(field, schema))
  IN CASE field.Type = <<"str">> -> finished([EmptyNode EXCEPT !.Type = "string"])
       [] field.Type = <<"int">> -> finished([EmptyNode EXCEPT !.Type = "integer"])
       [] field.Type = <<"float">> -> finished([EmptyNode EXCEPT !.Type = "number"])
       [] field.Type = <<"bool">> -> finished([EmptyNode EXCEPT !.Type = "boolean"])
       [] OTHER ->
          IF HasPrefix(field.Type, "[") /\ HasSuffix(field.Type, "]")
          THEN LET elementSchema ==
                     IF TrimSpace(elementType(field.Type)) = AnyMap
                     THEN arbitraryObjectItems(field)
                     ELSE convertFieldToPropertySchemaWithSchemas(
                            TypeOnlyField(elementType(field.Type)), table, path)
               IN IF elementSchema = StackOverflow THEN StackOverflow
                  ELSE finished([EmptyNode EXCEPT !.Type = "array",
                                                  !.Items = Ptr(elementSchema)])
          ELSE IF HasPrefix(field.Type, "{") /\ Contains(field.Type, ":")
          THEN finished(mapNode(field))
          ELSE IF inTable(field.Type, table)
          THEN IF field.Type[1] \in path THEN StackOverflow
               ELSE LET expanded ==
                          expandFields(table[field.Type[1]].Fields, table,
                                       path \cup {field.Type[1]},
                                       describedBy(field, [EmptyNode EXCEPT !.Type = "object"]))
                    IN IF expanded = StackOverflow THEN StackOverflow
                       ELSE applyFieldValidationsAndDefaults(field, expanded)
          ELSE finished([EmptyNode EXCEPT !.Type = "object"])

(***************************************************************************)
(* The runs of the mapper: one field converted against one schema table.   *)
(* The field types are the shapes the switch tells apart, under up to      *)
(* MaxArrayDepth pairs of brackets, the innermost pair also with blanks    *)
(* inside it.  The tables are tables the scanner can build: each entry is  *)
(* keyed by the name of its schema.                                        *)
(***************************************************************************)
BaseTypes ==
  {<<"str">>, <<"int">>, <<"float">>, <<"bool">>, <<"any">>, AnyMap,
   <<"{", "str", ":", "str", "}">>, <<"A">>, <<"B">>, <<"Missing">>}

Bracketed(type) == <<"[">> \o type \o <<"]">>

RECURSIVE ArrayTypes(_)
ArrayTypes(depth) ==
  IF depth = 0 THEN BaseTypes
  ELSE IF depth = 1
  THEN {Bracketed(t) : t \in BaseTypes} \cup {Bracketed(<<" ">> \o t \o <<" ">>) : t \in BaseTypes}
  ELSE {Bracketed(t) : t \in ArrayTypes(depth - 1)}

FieldTypes == UNION {ArrayTypes(d) : d \in 0..MaxArrayDepth}

FieldDefaults ==
  {<<>>, <<"\"", "5", "\"">>, <<"true">>, <<"TRUE">>, <<"1.5">>, <<"\"", "abc", "\"">>}

GenFields ==
  {[NewField("f", t, TRUE, d) EXCEPT !.PreserveUnknownFields = p, !.Description = doc] :
     t \in FieldTypes, d \in FieldDefaults, p \in BOOLEAN, doc \in {<<>>, <<"doc">>}}

SchemaOf(n, fields) == [NewSchema(n) EXCEPT !.Fields = fields]

Described(field, doc) == [field EXCEPT !.Description = doc]

Preserving(field) == [field EXCEPT !.PreserveUnknownFields = TRUE]

GenTables ==
  {<<>>,
   [A |-> SchemaOf("A", <<NewField("a", <<"str">>, TRUE, <<>>),
                          Described(NewField("b", <<"int">>, FALSE, <<"5">>), <<"count">>)>>),
    B |-> SchemaOf("B", <<NewField("p", <<"A">>, TRUE, <<>>),
                          NewField("q", Bracketed(<<"A">>), FALSE, <<>>)>>)],
   [A |-> SchemaOf("A", <<NewField("a", <<"str">>, TRUE, <<>>),
                          NewField("a", <<"int">>, TRUE, <<>>)>>)],
   [str |-> SchemaOf("str", <<NewField("a", <<"int">>, TRUE, <<>>)>>),
    A |-> SchemaOf("A", <<NewField("s", <<"str">>, FALSE, <<>>)>>)],
   [A |-> SchemaOf("A", <<NewField("n", <<"A">>, FALSE, <<>>)>>),
    B |-> SchemaOf("B", <<NewField("m", <<"str">>, TRUE, <<>>),
                          NewField("l", Bracketed(<<"B">>), FALSE, <<>>)>>)],
   [A |-> SchemaOf("A", <<NewField("p", <<"B">>, TRUE, <<>>)>>),
    B |-> SchemaOf("B", <<NewField("q", <<"A">>, FALSE, <<>>)>>)],
   [A |-> SchemaOf("A", <<>>),
    B |-> SchemaOf("B", <<NewField("u", <<"Unknown">>, TRUE, <<>>),
                          Preserving(NewField("w", <<"any">>, FALSE, <<>>))>>)]}

GenStart(field, table) ==
  [pc |-> "ready", field |-> field, table |-> table, out |-> EmptyNode]

\* convertFieldToPropertySchemaWithSchemas(field, schemas) is called
Convert ==
  /\ gen # Nil
  /\ gen.pc = "ready"
  /\ gen' = [gen EXCEPT
               !.pc = "converted",
               !.out = convertFieldToPropertySchemaWithSchemas(gen.field, gen.table, {})]
  /\ UNCHANGED scanVars

InitGen ==
  /\ ScanInit
  /\ gen \in {GenStart(f, t) : f \in GenFields, t \in GenTables}

NextGen == Convert

SpecGen == InitGen /\ [][NextGen]_vars

\* the mapper returned a node
Converted == gen # Nil /\ gen.pc = "converted" /\ gen.out # StackOverflow

(***************************************************************************)
(* What a field type says, read off its tokens alone.                      *)
(***************************************************************************)
Keywords == {"str", "int", "float", "bool"}

ScalarOf(keyword) ==
  CASE keyword = "str" -> "string" [] keyword = "int" -> "integer"
    [] keyword = "float" -> "number" [] keyword = "bool" -> "boolean"

\* [T]
IsArrayType(type) == Len(type) >= 2 /\ type[1] = "[" /\ type[Len(type)] = "]"
InnerType(type) == SubSeq(type, 2, Len(type) - 1)

\* a bare name
IsName(type) == Len(type) = 1

\* a keyword under any number of brackets
RECURSIVE IsKeywordArray(_)
IsKeywordArray(type) ==
  IF IsArrayType(type) THEN IsKeywordArray(InnerType(type))
  ELSE IsName(type) /\ type[1] \in Keywords

\* the types along the items of a node, outermost first
RECURSIVE TypeChain(_)
TypeChain(node) ==
  <<node.Type>> \o (IF node.Items = Nil THEN <<>> ELSE TypeChain(node.Items[1]))

RECURSIVE ExpectedChain(_)
ExpectedChain(type) ==
  IF IsArrayType(type) THEN <<"array">> \o ExpectedChain(InnerType(type))
  ELSE <<ScalarOf(type[1])>>

\* the conversion of the type T alone
ConversionOf(type, table) ==
  convertFieldToPropertySchemaWithSchemas(TypeOnlyField(type), table, {})

\* the fields of the schema a name refers to
Referenced(type, table) == table[type[1]].Fields

FieldNames(fields) == {fields[i].Name : i \in 1..Len(fields)}

LastNamed(fields, n) ==
  fields[CHOOSE i \in 1..Len(fields) :
           fields[i].Name = n /\ \A j \in (i + 1)..Len(fields) : fields[j].Name # n]

IsRequired(field) == field.Required

RequiredNames(fields) ==
  LET required == SelectSeq(fields, IsRequired)
  IN [i \in 1..Len(required) |-> required[i].Name]

(***************************************************************************)
(* C7: type mapping of a field.  str, int, float and bool convert to nodes *)
(* of type string, integer, number and boolean; [T] converts to a node of  *)
(* type array whose items node is the conversion of T, at every depth: a   *)
(* keyword under k brackets is k arrays around the keyword's scalar, and   *)
(* [Name] has the expanded schema Name as items.  (The items of            *)
(* [{any:any}] on a field annotated with preserve-unknown-fields carry the *)
(* field's marker besides: that case is C9's.)                             *)
(***************************************************************************)
C7_TypeMapping ==
  Converted =>
    LET type == gen.field.Type
        out == gen.out
        items == ConversionOf(InnerType(type), gen.table)
    IN /\ (IsName(type) /\ type[1] \in Keywords) => out.Type = ScalarOf(type[1])
       /\ IsKeywordArray(type) => TypeChain(out) = ExpectedChain(type)
       /\ IsArrayType(type) =>
            /\ out.Type = "array"
            /\ out.Items =
                 Ptr(IF TrimSpace(InnerType(type)) = AnyMap /\ gen.field.PreserveUnknownFields
                     THEN [items EXCEPT !.XKubernetesPreserveUnknownFields = Ptr(TRUE)]
                     ELSE items)

\* [[A]] was converted to an array of arrays of the object that schema A
\* expands to, whose properties a (str) and b (int) are a string and an integer
C7_Witness ==
  /\ Converted
  /\ gen.field.Type = Bracketed(Bracketed(<<"A">>))
  /\ TypeChain(gen.out) = <<"array", "array", "object">>
  /\ DOMAIN gen.out.Items[1].Items[1].Properties = {"a", "b"}
  /\ gen.out.Items[1].Items[1].Properties["a"].Type = "string"
  /\ gen.out.Items[1].Items[1].Properties["b"].Type = "integer"

(***************************************************************************)
(* C8: a field of type any converts to a node with no type at all (type    *)
(* unset, not "object"), which still carries its description and, when     *)
(* annotated, the preserve-unknown-fields marker.                          *)
(***************************************************************************)
C8_AnyHasNoType ==
  (Converted /\ gen.field.Type = <<"any">>) =>
     /\ gen.out.Type = ""
     /\ gen.out.Description = gen.field.Description
     /\ gen.field.PreserveUnknownFields =>
          gen.out.XKubernetesPreserveUnknownFields = Ptr(TRUE)

(***************************************************************************)
(* C9: for a field of type [{any:any}] annotated with                      *)
(* preserve-unknown-fields, the items node is an object carrying the       *)
(* marker and the array node itself does not carry it.                     *)
(***************************************************************************)
C9_MarkerOnItemsOnly ==
  (Converted /\ gen.field.Type = Bracketed(AnyMap) /\ gen.field.PreserveUnknownFields) =>
     /\ gen.out.Items # Nil
     /\ gen.out.Items[1].Type = "object"
     /\ gen.out.Items[1].XKubernetesPreserveUnknownFields = Ptr(TRUE)
     /\ gen.out.XKubernetesPreserveUnknownFields = Nil

Letters(name) ==
  CASE name = "XBucket" -> <<"X", "Bucket">>
    [] name = "XA" -> <<"X", "A">>
    [] name = "XXA" -> <<"X", "X", "A">>
    [] OTHER -> <<name>>

\* strings.ToLower, token by token
LowerOf(tok) ==
  CASE tok = "X" -> "x" [] tok = "A" -> "a" [] tok = "B" -> "b"
    [] tok = "Bucket" -> "bucket" [] tok = "Claim" -> "claim"
    [] tok = "TRUE" -> "true" [] tok = "True" -> "true"
    [] tok = "FALSE" -> "false" [] tok = "False" -> "false"
    [] OTHER -> tok

ToLower(s) == [i \in 1..Len(s) |-> LowerOf(s[i])]

\* generator.XRDOptions, with the Kind that run() sets at lines 129 and 141
NoOptions ==
  [Group |-> <<>>, Version |-> "", Kind |-> "", WithClaims |-> FALSE, ClaimKind |-> <<>>,
   ClaimPlural |-> <<>>, Served |-> FALSE, Referenceable |-> FALSE, Categories |-> <<>>,
   PrinterColumns |-> <<>>]

\* lines 175-182
claimKindOf(name, opts) ==
  IF opts.ClaimKind = <<>>
  THEN IF HasPrefix(name, "X") THEN TrimPrefix(name, "X") ELSE name
  ELSE opts.ClaimKind

\* lines 170-192
claimNamesOf(name, opts) ==
  IF opts.WithClaims
  THEN Ptr([Kind |-> claimKindOf(name, opts),
            Plural |-> IF opts.ClaimPlural = <<>>
                       THEN ToLower(claimKindOf(name, opts)) \o <<"s">>
                       ELSE opts.ClaimPlural])
  ELSE Nil

\* mutant: a required name is put in front of the list
parametersRequiredPrepended(required, field) ==
  IF field.Required THEN <<field.Name>> \o required ELSE required

\* lines 204-206
parametersRequiredAfter(required, field) ==
  IF field.Required THEN Append(required, field.Name) ELSE required

\* lines 201-207: the loop over the fields of the schema
RECURSIVE parametersAfter(_, _, _)
parametersAfter(fields, table, parametersSchema) ==
  IF fields = <<>> THEN parametersSchema
  ELSE LET field == Head(fields)
           propSchema == convertFieldToPropertySchemaWithSchemas(field, table, {})
       IN IF propSchema = StackOverflow THEN StackOverflow
          ELSE parametersAfter(Tail(fields), table,
                 [parametersSchema EXCEPT
                    !.Properties = MapPut(@, field.Name, propSchema),
                    !.Required = parametersRequiredAfter(@, field)])

\* lines 195-207
parametersSchemaOf(schema, table) ==
  parametersAfter(schema.Fields, table, [EmptyNode EXCEPT !.Type = "object"])

\* lines 210-216
specSchemaOf(parametersSchema) ==
  [EmptyNode EXCEPT !.Type = "object",
                    !.Properties = [parameters |-> parametersSchema],
                    !.Required = <<"parameters">>]

\* lines 134-232: the XRD, or StackOverflow when a conversion does not return
GenerateXRDWithSchemasAndOptions(schema, table, opts) ==
  LET name == Letters(schema.Name)
      plural == ToLower(name) \o <<"s">>
      parametersSchema == parametersSchemaOf(schema, table)
  IN IF parametersSchema = StackOverflow THEN StackOverflow
     ELSE [APIVersion |-> "apiextensions.crossplane.io/v1",
           Kind |-> "CompositeResourceDefinition",
           Metadata |-> [Name |-> plural \o <<".">> \o opts.Group],
           Spec |-> [Group |-> opts.Group,
                     Names |-> [Kind |-> name, Plural |-> plural],
                     ClaimNames |-> claimNamesOf(name, opts),
                     Categories |-> opts.Categories,
                     Versions |->
                       <<[Name |-> opts.Version,
                          Served |-> opts.Served,
                          Referenceable |-> opts.Referenceable,
                          AdditionalPrinterColumns |-> opts.PrinterColumns,
                          Schema |->
                            [OpenAPIV3Schema |->
                               [Type |-> "object",
                                Properties |-> [spec |-> specSchemaOf(parametersSchema)],
                                Required |-> <<"spec">>]]]>>]]

(***************************************************************************)
(* cmd/kcl2xrd: run().  A flag is Nil when the command line does not give  *)
(* it and Ptr(value) when it does; the variable cobra fills holds the      *)
(* flag's default in the first case.  gen is the state of the command:     *)
(* its flags, and after run() its error, what it printed and what it       *)
(* wrote.                                                                  *)
(***************************************************************************)
NoFlags ==
  [schema |-> Nil, group |-> Nil, version |-> Nil, categories |-> Nil, served |-> Nil,
   referenceable |-> Nil, printerColumns |-> Nil, withClaims |-> Nil, claimKind |-> Nil,
   claimPlural |-> Nil, output |-> Nil]

\* lines 36-47: the value of the variable bound to a flag
FlagValue(flag, default) == IF flag = Nil THEN default ELSE flag[1]

\* cmd.Flags().Changed
Changed(flag) == flag # Nil

\* line 100
DefaultVersion == "v1alpha1"

\* the error messages of run(), without their arguments
ParseFailed == "failed to parse KCL file"
SchemaNotFound == "schema not found in file"
MultipleXRD == "multiple schemas marked with @xrd annotation"
GroupMissing == "API group must be specified"
Overflowed == "fatal error: stack overflow"

\* mutant: the search stops at the first marked schema it finds
markedSchemasFirst(res, objects) ==
  LET marked == {n \in DOMAIN res.Schemas : objects[res.Schemas[n]].IsXRD}
  IN IF marked = {} THEN {} ELSE {CHOOSE n \in marked : TRUE}

\* the schemas of the table that are marked
markedSchemas(res, objects) ==
  {n \in DOMAIN res.Schemas : objects[res.Schemas[n]].IsXRD}

\* mutant: the @xrd marks are not looked at (lines 75-88 left out)
selectSchemaIgnoringMarks(res, objects, schemaName) ==
  IF schemaName # ""
  THEN IF schemaName \notin DOMAIN res.Schemas
       THEN {[err |-> SchemaNotFound, names |-> <<schemaName>>, selected |-> 0]}
       ELSE {[err |-> "", names |-> <<>>, selected |-> res.Schemas[schemaName]]}
  ELSE {[err |-> "", names |-> <<>>, selected |-> res.Primary]}

\* lines 66-93: the possible outcomes of the selection.  The loop of line 77
\* ranges over a map: with several marked schemas the two it names in the
\* error are any two of them.
selectSchema(res, objects, schemaName) ==
  IF schemaName # ""
  THEN IF schemaName \notin DOMAIN res.Schemas
       THEN {[err |-> SchemaNotFound, names |-> <<schemaName>>, selected |-> 0]}
       ELSE {[err |-> "", names |-> <<>>, selected |-> res.Schemas[schemaName]]}
  ELSE LET marked == markedSchemas(res, objects)
       IN IF Cardinality(marked) > 1
          THEN {[err |-> MultipleXRD, names |-> <<a, b>>, selected |-> 0] :
                  a \in marked, b \in marked} \ 
               {[err |-> MultipleXRD, names |-> <<a, a>>, selected |-> 0] : a \in marked}
          ELSE IF Cardinality(marked) = 1
          THEN {[err |-> "", names |-> <<>>,
                 selected |-> res.Schemas[CHOOSE n \in marked : TRUE]]}
          ELSE {[err |-> "", names |-> <<>>, selected |-> res.Primary]}

\* mutant: the group of the file is never looked at
groupOfFlagOnly(flags, meta) == FlagValue(flags.group, <<>>)

\* lines 97-99
groupUsed(flags, meta) ==
  IF FlagValue(flags.group, <<>>) = <<>> /\ meta.Group # <<>> THEN meta.Group
  ELSE FlagValue(flags.group, <<>>)

\* lines 100-102
versionUsed(flags, meta) ==
  IF FlagValue(flags.version, DefaultVersion) = DefaultVersion /\ meta.XRVersion # ""
  THEN meta.XRVersion
  ELSE FlagValue(flags.version, DefaultVersion)

\* lines 103-105
categoriesUsed(flags, meta) ==
  IF Len(FlagValue(flags.categories, <<>>)) = 0 /\ Len(meta.Categories) > 0
  THEN meta.Categories
  ELSE FlagValue(flags.categories, <<>>)

\* lines 106-108
servedUsed(flags, meta) ==
  IF meta.Served # Nil /\ ~Changed(flags.served) THEN meta.Served[1]
  ELSE FlagValue(flags.served, TRUE)

\* lines 109-111
referenceableUsed(flags, meta) ==
  IF meta.Referenceable # Nil /\ ~Changed(flags.referenceable) THEN meta.Referenceable[1]
  ELSE FlagValue(flags.referenceable, TRUE)

\* line 115: fmt.Sprintf("%s:%s:%s:%s", ...), as the parts between the colons
columnString(column) == <<column.Name, column.Type, column.JSONPath, column.Description>>

\* lines 112-117
printerColumnsUsed(flags, meta) ==
  IF Len(FlagValue(flags.printerColumns, <<>>)) = 0 /\ Len(meta.PrinterColumns) > 0
  THEN [i \in 1..Len(meta.PrinterColumns) |-> columnString(meta.PrinterColumns[i])]
  ELSE FlagValue(flags.printerColumns, <<>>)

\* lines 171-188
RECURSIVE parsePrinterColumns(_)
parsePrinterColumns(columns) ==
  IF columns = <<>> THEN <<>>
  ELSE (IF Len(Head(columns)) >= 3
        THEN <<[Name |-> Head(columns)[1], Type |-> Head(columns)[2],
                JSONPath |-> Head(columns)[3],
                Description |-> IF Len(Head(columns)) >= 4 THEN Head(columns)[4] ELSE ""]>>
        ELSE <<>>) \o parsePrinterColumns(Tail(columns))

\* lines 126-142
optionsOf(flags, meta) ==
  [Group |-> groupUsed(flags, meta),
   Version |-> versionUsed(flags, meta),
   Kind |-> meta.XRKind,
   WithClaims |-> FlagValue(flags.withClaims, FALSE),
   ClaimKind |-> FlagValue(flags.claimKind, <<>>),
   ClaimPlural |-> FlagValue(flags.claimPlural, <<>>),
   Served |-> servedUsed(flags, meta),
   Referenceable |-> referenceableUsed(flags, meta),
   Categories |-> categoriesUsed(flags, meta),
   PrinterColumns |-> parsePrinterColumns(printerColumnsUsed(flags, meta))]

\* the schema table with the objects its references point to
tableOf(res, objects) == [n \in DOMAIN res.Schemas |-> objects[res.Schemas[n]]]

\* what run() leaves behind: error, selection, options, standard output, file
NoOutcome ==
  [err |-> "", names |-> <<>>, selected |-> 0, opts |-> NoOptions,
   stdout |-> Nil, written |-> Nil]

\* lines 59-161
runOutcomes(res, objects, flags) ==
  IF res.err # "" THEN {[NoOutcome EXCEPT !.err = ParseFailed]}
  ELSE {IF s.err # "" THEN [NoOutcome EXCEPT !.err = s.err, !.names = s.names]
        ELSE IF groupUsed(flags, res.Metadata) = <<>>
        THEN [NoOutcome EXCEPT !.err = GroupMissing, !.selected = s.selected]
        ELSE LET opts == optionsOf(flags, res.Metadata)
                 xrd == GenerateXRDWithSchemasAndOptions(
                          objects[s.selected], tableOf(res, objects), opts)
             IN IF xrd = StackOverflow
                THEN [NoOutcome EXCEPT !.err = Overflowed, !.selected = s.selected,
                                       !.opts = opts]
                ELSE [NoOutcome EXCEPT
                        !.selected = s.selected, !.opts = opts,
                        !.stdout = IF flags.output = Nil THEN Ptr(xrd) ELSE Nil,
                        !.written = IF flags.output = Nil THEN Nil
                                    ELSE Ptr([file |-> flags.output[1], xrd |-> xrd])]
          : s \in selectSchema(res, objects, FlagValue(flags.schema, ""))}

CommandStart(flags) == [pc |-> "run", flags |-> flags, outcome |-> NoOutcome]

\* run() after ParseKCLFileWithSchemas has returned
Run ==
  /\ pc = "done"
  /\ gen # Nil
  /\ gen.pc = "run"
  /\ \E o \in runOutcomes(result, heap, gen.flags) :
       gen' = [gen EXCEPT !.pc = "exited", !.outcome = o]
  /\ UNCHANGED scanVars

\* run() has returned (or the process has died)
Exited == gen # Nil /\ gen.pc = "exited"

\* the document run() printed or wrote
Printed == Exited /\ (gen.outcome.stdout # Nil \/ gen.outcome.written # Nil)

Document == IF gen.outcome.stdout # Nil THEN gen.outcome.stdout[1]
            ELSE gen.outcome.written[1].xrd

\* the OpenAPI schema of the document's version
OpenAPIOf(xrd) == xrd.Spec.Versions[1].Schema.OpenAPIV3Schema
ParametersOf(xrd) == OpenAPIOf(xrd).Properties["spec"].Properties["parameters"]

(***************************************************************************)
(* The command on files with annotated fields: a schema A whose fields     *)
(* may be declared under "# @status".                                      *)
(***************************************************************************)
PlaceLines ==
  {AnnotL("@status", <<Directive("status", <<>>)>>),
   HeaderL(FALSE, "A"),
   FieldL(TRUE, "ready", FALSE, <<"bool">>, <<>>),
   FieldL(TRUE, "name", TRUE, <<"str">>, <<>>)}

PlaceFlags ==
  {[NoFlags EXCEPT !.group = Ptr(<<"example.org">>), !.output = o] :
     o \in {Nil, Ptr("out.yaml")}}

InitPlace == ScanInit /\ gen \in {CommandStart(f) : f \in PlaceFlags}

NextPlace ==
  \/ \E line \in PlaceLines :
       \/ CommentLine(line)
       \/ SchemaHeader(line)
       \/ FieldLine(line)
       \/ OtherLine(line)
  \/ Finish(EmptyMetadata)
  \/ Run

SpecPlace == InitPlace /\ [][NextPlace]_vars

\* the lines that declared the fields of the converted schema
RootFieldLines ==
  {i \in 1..Len(marks) : marks[i].ev = "field" /\ marks[i].at[1] = gen.outcome.selected}

\* field line i was declared under an annotation line with directive d
FlaggedAt(i, d) ==
  \E k \in 1..Len(marks[i].anns) : FindDirective(input[marks[i].anns[k]], d) # Nil

\* the sections of a document
InParameters(xrd, n) == n \in DOMAIN ParametersOf(xrd).Properties
InSpec(xrd, n) == n \in DOMAIN OpenAPIOf(xrd).Properties["spec"].Properties
InStatus(xrd, n) ==
  /\ "status" \in DOMAIN OpenAPIOf(xrd).Properties
  /\ n \in DOMAIN OpenAPIOf(xrd).Properties["status"].Properties

(***************************************************************************)
(* C11: placement is an exhaustive, disjoint partition of the root         *)
(* schema's fields.  A field declared under @status is in the status       *)
(* section and not in spec.parameters, a field declared under the          *)
(* spec-level annotation is directly under spec and not in                 *)
(* spec.parameters, every other field is in spec.parameters only; a        *)
(* required status or spec-level field is in the required list of its own  *)
(* section.                                                                *)
(***************************************************************************)
C11_PlacementPartition ==
  Printed =>
    \A i \in RootFieldLines :
      LET n == FieldAt(i).Name
          open == OpenAPIOf(Document)
      IN /\ FlaggedAt(i, "status") =>
              /\ InStatus(Document, n)
              /\ ~InParameters(Document, n)
              /\ FieldAt(i).Required => n \in Range(open.Properties["status"].Required)
         /\ (FlaggedAt(i, "spec") /\ ~FlaggedAt(i, "status")) =>
              /\ InSpec(Document, n)
              /\ ~InParameters(Document, n)
              /\ FieldAt(i).Required => n \in Range(open.Properties["spec"].Required)
         /\ (~FlaggedAt(i, "status") /\ ~FlaggedAt(i, "spec")) =>
              /\ InParameters(Document, n)
              /\ ~InStatus(Document, n)
              /\ ~InSpec(Document, n)

(***************************************************************************)
(* GenerateXRDWithSchemasAndOptions called twice on one root schema, one   *)
(* schema table and one set of options.  Lines 221-229 encode the document *)
(* with a yaml.v3 encoder: struct fields are written in declaration order  *)
(* and the keys of a map (the properties of a node) are collected in the   *)
(* order Go iterates the map, which differs from run to run, and sorted    *)
(* before they are written.  gen holds the inputs and the text of each     *)
(* run.                                                                    *)
(***************************************************************************)
\* the property names of the inputs, in the encoder's key order
KeyOrder ==
  <<"a", "b", "c", "f", "l", "m", "n", "p", "parameters", "q", "s", "u", "w">>

\* orders in which a run may iterate a map
IterationOrders ==
  {KeyOrder, [i \in 1..Len(KeyOrder) |-> KeyOrder[Len(KeyOrder) + 1 - i]]}

\* the keys of map m as the run iterates them
keysAsIterated(m, order) == SelectSeq(order, LAMBDA k : k \in DOMAIN m)

\* mutant: the keys are written in the order they were collected
keysUnsorted(keys) == keys

\* the encoder sorts the keys of a map
sortedKeys(keys) == SelectSeq(KeyOrder, LAMBDA k : k \in Range(keys))

\* the text of a node: its properties are written key by key
RECURSIVE encodeNode(_, _)
encodeNode(node, order) ==
  LET keys == sortedKeys(keysAsIterated(node.Properties, order))
  IN [node EXCEPT
        !.Properties = [i \in 1..Len(keys) |->
                          <<keys[i], encodeNode(node.Properties[keys[i]], order)>>],
        !.Items = IF node.Items = Nil THEN Nil
                  ELSE Ptr(encodeNode(node.Items[1], order))]

\* lines 221-229: the text of the document
encodeDocument(xrd, order) ==
  IF xrd = StackOverflow THEN Overflowed
  ELSE [xrd EXCEPT
          !.Spec.Versions[1].Schema.OpenAPIV3Schema.Properties =
             <<<<"spec", encodeNode(@["spec"], order)>>>>]

DocRoots ==
  {SchemaOf(n, fields) :
     n \in {"Bucket", "XBucket", "A", "XXA"},
     fields \in {<<NewField("b", <<"B">>, TRUE, <<>>),
                   NewField("a", <<"str">>, TRUE, <<>>),
                   NewField("c", <<"int">>, FALSE, <<"5">>)>>,
                 <<NewField("a", <<"A">>, FALSE, <<>>)>>}}

DocOptions ==
  {[NoOptions EXCEPT !.Group = <<"example.org">>, !.Version = "v1alpha1",
                     !.Served = TRUE, !.Referenceable = TRUE,
                     !.WithClaims = w, !.ClaimKind = k] :
     w \in BOOLEAN, k \in {<<>>, <<"Claim">>}}

DocStart(schema, table, opts) ==
  [pc |-> "ready", schema |-> schema, table |-> table, opts |-> opts,
   xrd |-> Nil, texts |-> <<>>]

\* GenerateXRDWithSchemasAndOptions(schema, schemas, opts) is called
Generate ==
  /\ gen # Nil
  /\ gen.pc \in {"ready", "once"}
  /\ \E order \in IterationOrders :
       LET xrd == GenerateXRDWithSchemasAndOptions(gen.schema, gen.table, gen.opts)
       IN gen' = [gen EXCEPT
                    !.pc = IF gen.pc = "ready" THEN "once" ELSE "twice",
                    !.xrd = Ptr(xrd),
                    !.texts = Append(@, encodeDocument(xrd, order))]
  /\ UNCHANGED scanVars

InitDoc ==
  /\ ScanInit
  /\ gen \in {DocStart(s, t, o) : s \in DocRoots, t \in GenTables, o \in DocOptions}

NextDoc == Generate

SpecDoc == InitDoc /\ [][NextDoc]_vars

\* the generator returned a document
Generated == gen # Nil /\ gen.pc \in {"once", "twice"} /\ gen.xrd[1] # StackOverflow

\* the kind the document was generated from, and that kind without its X
KindOf(schema) == Letters(schema.Name)
Unprefixed(kind) == IF HasPrefix(kind, "X") THEN TrimPrefix(kind, "X") ELSE kind

(***************************************************************************)
(* C12: with claim generation enabled and no claim-kind override, a kind   *)
(* K that does not start with X yields XRD kind "X"+K and claim kind K,    *)
(* the kind "X"+K yields the same pair, and the XRD kind and the claim     *)
(* kind are never equal.                                                   *)
(***************************************************************************)
C12_ClaimKindDerivation ==
  (Generated /\ gen.opts.WithClaims /\ gen.opts.ClaimKind = <<>>) =>
     LET kind == KindOf(gen.schema)
         K == Unprefixed(kind)
         spec == gen.xrd[1].Spec
     IN /\ spec.ClaimNames # Nil
        /\ ~HasPrefix(K, "X") =>
             /\ spec.Names.Kind = <<"X">> \o K
             /\ spec.ClaimNames[1].Kind = K
        /\ spec.Names.Kind # spec.ClaimNames[1].Kind

\* the default literal of a field without its surrounding quotes
Unquoted(default) == Trim(default, {"\"", "'"})

(***************************************************************************)
(* C13: default-value coercion.  For every field with a default (a         *)
(* non-empty literal other than KCL's Undefined) the node's default is the *)
(* literal with the surrounding quotes removed, coerced by the node's      *)
(* type: an integer when it parses as one for type integer, a float when   *)
(* it parses as one for type number, a boolean when it is true or false in *)
(* any letter case for type boolean; when coercion fails, and for every    *)
(* other type, it is the unquoted literal string.  A field with a default  *)
(* never yields a node without a default.                                  *)
(***************************************************************************)
C13_DefaultCoercion ==
  (Converted /\ gen.field.Default \notin {<<>>, <<"Undefined">>}) =>
     LET literal == Unquoted(gen.field.Default)
         asString == Ptr([tag |-> "string", v |-> literal])
         out == gen.out
     IN /\ out.Default # Nil
        /\ out.Default =
             CASE out.Type = "integer" /\ Atoi(OneToken(literal)).ok ->
                    Ptr([tag |-> "int", v |-> Atoi(OneToken(literal)).v])
               [] out.Type = "number" /\ ParseFloat(OneToken(literal)).ok ->
                    Ptr([tag |-> "float64", v |-> ParseFloat(OneToken(literal)).v])
               [] out.Type = "boolean" /\ ToLower(literal) \in {<<"true">>, <<"false">>} ->
                    Ptr([tag |-> "bool", v |-> ToLower(literal) = <<"true">>])
               [] OTHER -> asString

MetaLines ==
  {VarL("_a", "aws"),
   GroupExprL(TRUE, <<"{}", ".org">>, <<[q |-> FALSE, s |-> "_a"]>>),
   GroupExprL(TRUE, <<"{}", ".", "{}">>, <<[q |-> FALSE, s |-> "_a"], [q |-> FALSE, s |-> "_b"]>>),
   GroupExprL(TRUE, <<"{}", ".", "{}">>, <<[q |-> FALSE, s |-> "_a"]>>),
   GroupExprL(TRUE, <<"{}", ".", "{}">>, <<[q |-> TRUE, s |-> "_a"], [q |-> FALSE, s |-> "_a"]>>),
   MetaL("xrkind", "__xrd_kind", "K"),
   MetaL("xrversion", "__xrd_version", "v1"),
   HeaderL(FALSE, "A")}

InitMeta == ScanInit /\ gen = Nil

NextMeta ==
  \/ \E line \in MetaLines :
       \/ MetadataLine(line)
       \/ SchemaHeader(line)
       \/ ExitSchema(line)
       \/ OtherLine(line)
  \/ \E k \in KclOutcomes : Finish(k)

SpecMeta == InitMeta /\ [][NextMeta]_vars

\* the lines of the given kinds that the scan read as metadata
MetadataLinesRead(kinds) ==
  {i \in 1..Len(input) : marks[i].ev = "metadata" /\ input[i].kind \in kinds}

\* the variables bound by the lines before line i
BoundBefore(i) ==
  {input[j].name : j \in {k \in 1..(i - 1) : marks[k].ev = "other" /\ input[k].kind = "var"}}

Placeholders(fmt) == Cardinality({k \in 1..Len(fmt) : fmt[k] = "{}"})

\* the right-hand side of the group assignment of line i cannot be fully
\* resolved
Unresolvable(i) ==
  /\ input[i].kind = "groupexpr"
  /\ \/ ~input[i].isFormat
     \/ \E k \in 1..Len(input[i].args) : input[i].args[k].s \notin BoundBefore(i)
     \/ Placeholders(input[i].fmt) > Len(input[i].args)

\* the parse returned for a file with a schema all of whose group
\* assignments are unresolvable
GroupUnresolved ==
  /\ Done
  /\ Headers(input) # {}
  /\ MetadataLinesRead({"group", "groupexpr"}) # {}
  /\ \A i \in MetadataLinesRead({"group", "groupexpr"}) : Unresolvable(i)

\* the value of the last metadata line of the given kind, "" without one
Scanned(kind) ==
  LET ls == MetadataLinesRead({kind})
  IN IF ls = {} THEN ""
     ELSE input[CHOOSE i \in ls : \A j \in ls : j <= i].val[1]

(***************************************************************************)
(* C15 as stated: a group assignment whose right-hand side cannot be fully *)
(* resolved never yields a partially substituted or guessed group, never   *)
(* causes a parse error, and leaves Metadata.Group unset; the kind and     *)
(* version lines of the file are still parsed.                             *)
(***************************************************************************)
C15_GroupLeftUnset ==
  GroupUnresolved =>
     /\ result.err = ""
     /\ result.Metadata.Group = <<>>
     /\ result.Metadata.XRKind = Scanned("xrkind")
     /\ result.Metadata.XRVersion = Scanned("xrversion")

(***************************************************************************)
(* C15, amended: such a group assignment never yields a partially          *)
(* substituted or guessed group and never causes a parse error;            *)
(* Metadata.Group is unset unless the KCL runtime evaluated a group for    *)
(* the file, and is then exactly the evaluated group; kind and version are *)
(* the scanned literals unless the runtime evaluated them too.             *)
(***************************************************************************)
C15_GroupFailsClosed ==
  GroupUnresolved =>
     /\ result.err = ""
     /\ result.Metadata.Group \in {<<>>} \cup {k.Group : k \in KclOutcomes}
     /\ result.Metadata.XRKind \in
          {Scanned("xrkind")} \cup ({k.XRKind : k \in KclOutcomes} \ {""})
     /\ result.Metadata.XRVersion \in
          {Scanned("xrversion")} \cup ({k.XRVersion : k \in KclOutcomes} \ {""})

\* _a was bound, the group expression with the unbound argument _b was read
\* after it as metadata, the runtime evaluated nothing: the group is unset
\* (not "aws.{}") and the kind literal was parsed
C15_Witness ==
  /\ GroupUnresolved
  /\ \E i \in MetadataLinesRead({"groupexpr"}) :
       /\ "_a" \in BoundBefore(i)
       /\ \E k \in 1..Len(input[i].args) : input[i].args[k].s = "_b"
  /\ result.Metadata.Group = <<>>
  /\ result.Metadata.XRKind = "K"

(***************************************************************************)
(* The command on files that set metadata, under command lines that give   *)
(* some of the same settings.                                              *)
(***************************************************************************)
OptionLines ==
  {HeaderL(FALSE, "A"),
   MetaL("group", "__xrd_group", "file.org"),
   MetaL("xrversion", "__xrd_version", "v2"),
   BoolL("served", "__xrd_served", "false"),
   CategoriesL(<<[q |-> TRUE, s |-> "file"]>>)}

OptionFlags ==
  {NoFlags,
   [NoFlags EXCEPT !.group = Ptr(<<"cli.org">>)],
   [NoFlags EXCEPT !.group = Ptr(<<"cli.org">>), !.version = Ptr(DefaultVersion)],
   [NoFlags EXCEPT !.group = Ptr(<<"cli.org">>), !.version = Ptr("v1"),
                   !.served = Ptr(TRUE), !.categories = Ptr(<<"cli">>)],
   [NoFlags EXCEPT !.version = Ptr(DefaultVersion), !.output = Ptr("out.yaml")],
   [NoFlags EXCEPT !.served = Ptr(TRUE), !.categories = Ptr(<<"cli">>),
                   !.output = Ptr("out.yaml")]}

InitOptions == ScanInit /\ gen \in {CommandStart(f) : f \in OptionFlags}

NextOptions ==
  \/ \E line \in OptionLines :
       \/ MetadataLine(line)
       \/ SchemaHeader(line)
       \/ ExitSchema(line)
  \/ Finish(EmptyMetadata)
  \/ Run

SpecOptions == InitOptions /\ [][NextOptions]_vars

\* neither the command line nor the file gives a group
NoGroupGiven ==
  FlagValue(gen.flags.group, <<>>) = <<>> /\ result.Metadata.Group = <<>>

(***************************************************************************)
(* C16: the conversion fails with the missing-group error exactly when the *)
(* group is empty in both the caller's options and the file metadata (the  *)
(* file having parsed and a schema having been selected); when either      *)
(* gives a group it does not fail for that reason; and on any failure no   *)
(* document is printed or written.                                         *)
(***************************************************************************)
C16_MissingGroup ==
  Exited =>
    /\ gen.outcome.err = GroupMissing => NoGroupGiven
    /\ (NoGroupGiven /\ gen.outcome.selected # 0) => gen.outcome.err = GroupMissing
    /\ gen.outcome.err # "" => (gen.outcome.stdout = Nil /\ gen.outcome.written = Nil)

\* a file with a schema, a version and no group was converted with an
\* output file and no --group: the run failed for the missing group and
\* wrote nothing
C16_Witness ==
  /\ Exited
  /\ gen.flags.output # Nil
  /\ gen.flags.group = Nil
  /\ result.err = ""
  /\ result.Metadata.XRVersion = "v2"
  /\ gen.outcome.err = GroupMissing
  /\ gen.outcome.written = Nil

(***************************************************************************)
(* C17: for every setting that both the caller's options and the file      *)
(* metadata give (group, version, categories, served, referenceable,       *)
(* printer columns) the document uses the caller's value, also when the    *)
(* caller explicitly passes the option's default (--version v1alpha1       *)
(* against a file that sets __xrd_version).                                *)
(***************************************************************************)
C17_CallerWins ==
  Printed =>
    LET flags == gen.flags
        meta == result.Metadata
        version == Document.Spec.Versions[1]
    IN /\ (flags.group # Nil /\ meta.Group # <<>>) => Document.Spec.Group = flags.group[1]
       /\ (flags.version # Nil /\ meta.XRVersion # "") => version.Name = flags.version[1]
       /\ (flags.categories # Nil /\ meta.Categories # <<>>) =>
            Document.Spec.Categories = flags.categories[1]
       /\ (flags.served # Nil /\ meta.Served # Nil) => version.Served = flags.served[1]
       /\ (flags.referenceable # Nil /\ meta.Referenceable # Nil) =>
            version.Referenceable = flags.referenceable[1]
       /\ (flags.printerColumns # Nil /\ meta.PrinterColumns # <<>>) =>
            version.AdditionalPrinterColumns = parsePrinterColumns(flags.printerColumns[1])

(***************************************************************************)
(* The command on files with two schemas, either of which may be marked    *)
(* with "# @xrd", and a __xrd_kind line, with and without --schema.        *)
(***************************************************************************)
SelectLines ==
  {AnnotL("@xrd", <<Directive("xrd", <<>>)>>),
   HeaderL(FALSE, "A"),
   HeaderL(FALSE, "B"),
   MetaL("xrkind", "__xrd_kind", "A")}

SelectFlags ==
  {[NoFlags EXCEPT !.group = Ptr(<<"example.org">>), !.schema = s] :
     s \in {Nil, Ptr("A"), Ptr("Missing")}}

InitSelect == ScanInit /\ gen \in {CommandStart(f) : f \in SelectFlags}

NextSelect ==
  \/ \E line \in SelectLines :
       \/ MetadataLine(line)
       \/ CommentLine(line)
       \/ SchemaHeader(line)
       \/ ExitSchema(line)
  \/ Finish(EmptyMetadata)
  \/ Run

SpecSelect == InitSelect /\ [][NextSelect]_vars

\* the command ran on a file that parsed
Selected == Exited /\ result.err = ""

\* the schemas of the table that are marked with @xrd, by name
Marked == {n \in DOMAIN result.Schemas : heap[result.Schemas[n]].IsXRD}

\* the name of the schema the document was generated from
ConvertedName == heap[gen.outcome.selected].Name

NoDocument == gen.outcome.stdout = Nil /\ gen.outcome.written = Nil

(***************************************************************************)
(* C18 as stated: whenever more than one schema of the table is marked     *)
(* with @xrd, the conversion aborts with the ambiguous-root-marker error   *)
(* and produces no document.                                               *)
(***************************************************************************)
C18_TwoMarksAbort ==
  (Selected /\ Cardinality(Marked) > 1) =>
     /\ gen.outcome.err = MultipleXRD
     /\ NoDocument

(***************************************************************************)
(* C18, amended: whenever more than one schema of the table is marked with *)
(* @xrd and no schema name is requested, the conversion aborts with the    *)
(* ambiguous-root-marker error, which names two of the marked schemas, and *)
(* produces no document.                                                   *)
(***************************************************************************)
C18_TwoMarksAbortUnrequested ==
  (Selected /\ Cardinality(Marked) > 1 /\ gen.flags.schema = Nil) =>
     /\ gen.outcome.err = MultipleXRD
     /\ Range(gen.outcome.names) \subseteq Marked
     /\ gen.outcome.names[1] # gen.outcome.names[2]
     /\ NoDocument

\* A and B were both marked and no name was requested: the run aborted
C18_Witness ==
  /\ Selected
  /\ Marked = {"A", "B"}
  /\ gen.flags.schema = Nil
  /\ gen.outcome.err = MultipleXRD
  /\ NoDocument

C20_KindNamesTheRoot ==
  (Selected /\ gen.flags.schema = Nil /\ Marked = {}
     /\ result.Metadata.XRKind \in DOMAIN result.Schemas) =>
     /\ Printed
     /\ ConvertedName = result.Metadata.XRKind

\* the schemas a type refers to: the name itself, or the element of an array
RECURSIVE NameOf(_)
NameOf(type) ==
  IF IsArrayType(type) THEN NameOf(InnerType(type))
  ELSE IF IsName(type) /\ type[1] \notin Keywords THEN {type[1]}
  ELSE {}

\* the schemas of the table that the fields of schema n refer to
RefersTo(n, table) ==
  UNION {NameOf(table[n].Fields[i].Type) \cap DOMAIN table : i \in 1..Len(table[n].Fields)}

\* the schemas reached from the set `from` in at most k steps
RECURSIVE ReachedFrom(_, _, _)
ReachedFrom(from, table, k) ==
  IF k = 0 THEN from
  ELSE ReachedFrom(from \cup UNION {RefersTo(n, table) : n \in from}, table, k - 1)

\* the expansion of the type revisits a schema that is on its path
Cyclic(type, table) ==
  \E n \in ReachedFrom(NameOf(type) \cap DOMAIN table, table, Cardinality(DOMAIN table)) :
    n \in ReachedFrom(RefersTo(n, table), table, Cardinality(DOMAIN table))

(***************************************************************************)
(* C21: conversion terminates for every schema table, also when a schema   *)
(* refers to itself directly, through another schema or through an array   *)
(* element type: the call returns, and on a cycle what it returns is the   *)
(* cyclic-schema-reference error, not a node; it never recurses without    *)
(* bound.                                                                  *)
(***************************************************************************)
C21_CyclesAreReported ==
  (gen # Nil /\ gen.pc = "converted") =>
     /\ gen.out # StackOverflow
     /\ Cyclic(gen.field.Type, gen.table) => gen.out.Type = "cyclic schema reference"

\* the lines that ended a schema body
EndingLines == {i \in 1..Len(input) : marks[i].ev = "exit"}

(***************************************************************************)
(* C22: the non-indented line that ends a schema body is not lost.  In the *)
(* same pass it is evaluated as a top-level statement: an __xrd_kind or    *)
(* __xrd_version assignment populates the metadata (unless the KCL runtime *)
(* evaluated that setting), a _name = "literal" assignment is bound in the *)
(* variable table, and a schema header opens the next schema.              *)
(***************************************************************************)
C22_EndingLineIsEvaluated ==
  (Done /\ result.err = "") =>
     /\ \A i \in EndingLines :
          /\ input[i].kind = "xrkind" =>
               result.Metadata.XRKind \in
                 ({Scanned("xrkind"), input[i].val[1]} \ {""})
                   \cup ({k.XRKind : k \in KclOutcomes} \ {""})
          /\ input[i].kind = "xrversion" =>
               result.Metadata.XRVersion \in
                 ({Scanned("xrversion"), input[i].val[1]} \ {""})
                   \cup ({k.XRVersion : k \in KclOutcomes} \ {""})
          /\ input[i].kind = "var" =>
               /\ input[i].name \in DOMAIN variables
               /\ variables[input[i].name] = input[i].val[1]
     /\ \A i \in Headers(input) : marks[i].ev = "header"

(***************************************************************************)
(* The scan of files whose schemas follow each other without a top-level   *)
(* line in between and carry block comments: two headers, a field, the     *)
(* delimiter and a line of comment text, in files of up to MaxLines + 2    *)
(* lines.                                                                  *)
(***************************************************************************)
NestedLines ==
  {HeaderL(FALSE, "A"),
   HeaderL(FALSE, "B"),
   FieldL(TRUE, "x", FALSE, <<"str">>, <<>>),
   DocL,
   TextL(TRUE, "about")}

InitNested == ScanInit /\ gen = [pc |-> "scan", more |-> 2]

NextNested ==
  \/ \E line \in NestedLines :
       \/ DocstringDelimiter(line)
       \/ DocstringText(line)
       \/ SchemaHeader(line)
       \/ FieldLine(line)
       \/ OtherLine(line)
  \/ Finish(EmptyMetadata)

SpecNested == InitNested /\ [][NextNested]_vars

\* the lines of the block comment that opens at line i, and the line that
\* closes it (0 when the input ends inside the comment)
ClosingOf(i) ==
  IF \E j \in (i + 1)..Len(input) : marks[j].ev = "docclose"
  THEN CHOOSE j \in (i + 1)..Len(input) :
         marks[j].ev = "docclose" /\ \A k \in (i + 1)..(j - 1) : marks[k].ev # "docclose"
  ELSE 0

CommentText(i) ==
  Join([k \in 1..(ClosingOf(i) - i - 1) |-> trimmedLine(input[i + k])], " ")

\* the block comments that directly follow a header and are closed
HeaderComments ==
  {i \in 2..Len(input) :
     marks[i].ev = "docopen" /\ marks[i - 1].ev = "header" /\ ClosingOf(i) # 0}

\* the descriptions of the fields declared before line i, by declaration line
FieldLinesBefore(i) == {k \in 1..(i - 1) : marks[k].ev = "field"}

(***************************************************************************)
(* C23: for every schema of the file, a block comment that directly        *)
(* follows the schema's header becomes that schema's description, also     *)
(* when the header directly follows the fields of a previous schema, and   *)
(* such a comment changes the description of no field (every field         *)
(* declared before it has no description, the input holding no other       *)
(* comment).                                                               *)
(***************************************************************************)
C23_HeaderCommentDescribesSchema ==
  Done =>
    \A i \in HeaderComments :
      /\ heap[ObjectOf(input, i - 1)].Description = CommentText(i)
      /\ \A k \in FieldLinesBefore(i) : FieldAt(k).Description = <<>>

(***************************************************************************)
(* C24: once a schema has been placed in the schema table, no later input  *)
(* line changes it: in every step, each schema the table holds before the  *)
(* step has the same name, description, fields and field attributes after  *)
(* it.                                                                     *)
(***************************************************************************)
C24_TableEntriesAreFinal ==
  [][\A n \in DOMAIN schemas : heap'[schemas[n]] = heap[schemas[n]]]_vars

(***************************************************************************)
(* C25: the block-comment rule has the highest priority.  A line read      *)
(* while the scanner is inside a block comment is only buffered as comment *)
(* text: the step sets no metadata, binds no variable, adds no pending     *)
(* annotation, opens and ends no schema and adds no field; and the line    *)
(* that closes the comment leaves the scanner in the mode (pre-schema or   *)
(* in-schema) it was in.                                                   *)
(***************************************************************************)
C25_BlockCommentFirst ==
  [][(inDocstring /\ pc' = "scan") =>
       /\ metadata' = metadata
       /\ variables' = variables
       /\ pendingAnnotations' = pendingAnnotations
       /\ inSchema' = inSchema
       /\ currentSchema' = currentSchema
       /\ schemas' = schemas
       /\ Len(heap') = Len(heap)
       /\ \A o \in 1..Len(heap) : Len(heap'[o].Fields) = Len(heap[o].Fields)
       /\ inDocstring' =>
            docstringLines' = Append(docstringLines, trimmedLine(Last(input')))]_vars

\* the value bound to variable n by the lines before line i
BoundValue(n, i) ==
  LET ls == {k \in 1..(i - 1) : marks[k].ev = "other" /\ input[k].kind = "var"
                                  /\ input[k].name = n}
  IN input[CHOOSE k \in ls : \A j \in ls : j <= k].val[1]

\* every argument of the format expression of line i is a quoted literal or
\* a bound variable, and no placeholder is left without an argument
ArgumentsResolve(i) ==
  /\ input[i].kind = "groupexpr"
  /\ input[i].isFormat
  /\ input[i].args # <<>>
  /\ \A k \in 1..Len(input[i].args) :
       input[i].args[k].q \/ input[i].args[k].s \in BoundBefore(i)
  /\ Placeholders(input[i].fmt) <= Len(input[i].args)

\* the template of line i with its placeholders filled left to right, a
\* quoted literal by its own text and a variable by its value
Substituted(i) ==
  ReplaceAll(input[i].fmt,
             [k \in 1..Len(input[i].args) |->
                IF input[i].args[k].q THEN input[i].args[k].s
                ELSE BoundValue(input[i].args[k].s, i)])

\* the last group assignment the scan read as metadata
LastGroupLine ==
  LET ls == MetadataLinesRead({"group", "groupexpr"})
  IN CHOOSE i \in ls : \A j \in ls : j <= i

(***************************************************************************)
(* C26: in a "template".format(arg1, arg2, ...) group expression each      *)
(* argument may be a bound variable or a quoted literal.  A quoted literal *)
(* is substituted as its own text, not looked up as a variable name, a     *)
(* bound variable as its value, and the placeholders are filled left to    *)
(* right: the group of the metadata is the substituted template of the     *)
(* last such assignment (unless the KCL runtime evaluated a group).        *)
(***************************************************************************)
C26_FormatArguments ==
  (Done /\ result.err = "" /\ MetadataLinesRead({"group", "groupexpr"}) # {}
     /\ ArgumentsResolve(LastGroupLine)) =>
     result.Metadata.Group \in
       {Substituted(LastGroupLine)} \cup ({k.Group : k \in KclOutcomes} \ {<<>>})

(***************************************************************************)
(* The scan of files whose fields carry numeric annotations with arguments *)
(* the patterns or strconv.Atoi reject: a word, a negative number, a       *)
(* number too large for int, next to a well-formed one and to @immutable   *)
(* on the line of a rejected directive.                                    *)
(***************************************************************************)
MalformedLines ==
  {HeaderL(FALSE, "A"),
   FieldL(TRUE, "x", FALSE, <<"str">>, <<>>),
   AnnotL("@minLength(abc) @immutable",
          <<Directive("minLength", <<"abc">>), Directive("immutable", <<>>)>>),
   AnnotL("@minimum(-5)", <<Directive("minimum", <<"-5">>)>>),
   AnnotL("@maxLength(" \o Huge \o ")", <<Directive("maxLength", <<Huge>>)>>),
   AnnotL("@minLength(3)", <<Directive("minLength", <<"3">>)>>)}

InitMalformed == ScanInit /\ gen = [pc |-> "scan", more |-> 1]

NextMalformed ==
  \/ \E line \in MalformedLines :
       \/ CommentLine(line)
       \/ SchemaHeader(line)
       \/ FieldLine(line)
       \/ OtherLine(line)
  \/ Finish(EmptyMetadata)

SpecMalformed == InitMalformed /\ [][NextMalformed]_vars

\* the argument is a run of digits that fits an int
ParseableInt(dir) ==
  Len(dir.a) = 1 /\ dir.a[1] \in DOMAIN IntValue /\ IntValue[dir.a[1]] >= 0

\* the attribute of a field that a numeric directive sets
NumericValue(field, dname) ==
  CASE dname = "minLength" -> field.MinLength
    [] dname = "maxLength" -> field.MaxLength
    [] dname = "minimum" -> field.Minimum
    [] dname = "maximum" -> field.Maximum
    [] dname = "minItems" -> field.MinItems

\* the lines buffered at field line i that hold directive dname, whatever
\* its argument
LinesWith(i, dname) ==
  {l \in Range(marks[i].anns) : \E k \in 1..Len(input[l].anns) : input[l].anns[k].d = dname}

\* those of them on which the directive has a parseable argument
ParseableLinesWith(i, dname) ==
  {l \in LinesWith(i, dname) :
     \E k \in 1..Len(input[l].anns) :
       input[l].anns[k].d = dname /\ ParseableInt(input[l].anns[k])}

FieldLinesOf(inp) == {i \in 1..Len(inp) : marks[i].ev = "field"}

(***************************************************************************)
(* C27: a numeric annotation whose argument is no parseable, non-          *)
(* overflowing integer is a no-op.  For every field line and every numeric *)
(* directive of which the buffer holds only such occurrences the attribute *)
(* stays unset; the other annotations of the buffer are applied (a         *)
(* well-formed @minLength sets MinLength, @immutable sets Immutable, also  *)
(* on the line of a rejected directive); the field is created under the    *)
(* name of its line; and the parse of a file with a schema returns no      *)
(* error.                                                                  *)
(***************************************************************************)
C27_MalformedNumericIsNoOp ==
  Done =>
    /\ (\E i \in 1..Len(input) : marks[i].ev = "header") => result.err = ""
    /\ \A i \in FieldLinesOf(input) :
         /\ marks[i].at[1] \in 1..Len(heap)
         /\ marks[i].at[2] \in 1..Len(heap[marks[i].at[1]].Fields)
         /\ FieldAt(i).Name = input[i].name
         /\ \A dname \in NumericDirectives :
              ParseableLinesWith(i, dname) = {} => NumericValue(FieldAt(i), dname) = Nil
         /\ ParseableLinesWith(i, "minLength") # {} => FieldAt(i).MinLength = Ptr(3)
         /\ FieldAt(i).Immutable = (LinesWith(i, "immutable") # {})

\* a field whose buffer held a word, a negative and an overflowing argument
C27_Witness ==
  /\ Done
  /\ \E i \in FieldLinesOf(input) :
       /\ LinesWith(i, "minLength") # {} /\ ParseableLinesWith(i, "minLength") = {}
       /\ LinesWith(i, "maxLength") # {}
       /\ LinesWith(i, "minimum") # {}
       /\ FieldAt(i).Immutable
       /\ FieldAt(i).MinLength = Nil /\ FieldAt(i).MaxLength = Nil
       /\ FieldAt(i).Minimum = Nil

(***************************************************************************)
(* The scan of files whose fields carry the same directive more than once: *)
(* two @minLength lines, and two @validate lines of which one has a        *)
(* message, in files of up to MaxLines + 2 lines.                          *)
(***************************************************************************)
RepeatedLines ==
  {HeaderL(FALSE, "A"),
   FieldL(TRUE, "x", FALSE, <<"str">>, <<>>),
   AnnotL("@minLength(3)", <<Directive("minLength", <<"3">>)>>),
   AnnotL("@minLength(5)", <<Directive("minLength", <<"5">>)>>),
   AnnotL("@validate('r1')", <<Directive("validate", <<"r1">>)>>),
   AnnotL("@validate('r2', 'msg')", <<Directive("validate", <<"r2", "msg">>)>>)}

InitRepeated == ScanInit /\ gen = [pc |-> "scan", more |-> 2]

NextRepeated ==
  \/ \E line \in RepeatedLines :
       \/ CommentLine(line)
       \/ SchemaHeader(line)
       \/ FieldLine(line)
       \/ OtherLine(line)
  \/ Finish(EmptyMetadata)

SpecRepeated == InitRepeated /\ [][NextRepeated]_vars

\* the annotation lines buffered at field line i, in source order
BufferAt(i) == AnnotationLinesSince(input, PreviousMark(i), i)

\* the argument list of directive dname on line l
ArgumentsOf(l, dname) ==
  input[l].anns[CHOOSE k \in 1..Len(input[l].anns) : input[l].anns[k].d = dname].a

HasDirective(l, dname) == \E k \in 1..Len(input[l].anns) : input[l].anns[k].d = dname

\* the @validate lines of the buffer and the rule each of them states
ValidateLinesAt(i) == SelectSeq(BufferAt(i), LAMBDA l : HasDirective(l, "validate"))

RuleOf(l) ==
  [Rule |-> ArgumentsOf(l, "validate")[1],
   Message |-> IF Len(ArgumentsOf(l, "validate")) > 1 THEN ArgumentsOf(l, "validate")[2]
               ELSE ""]

LastLineWith(i, dname) ==
  CHOOSE l \in Range(BufferAt(i)) :
    HasDirective(l, dname) /\ \A k \in Range(BufferAt(i)) : HasDirective(k, dname) => k <= l

BlankStep ==
  /\ Len(input') = Len(input) + 1
  /\ ~inDocstring
  /\ trimmedLine(Last(input')) = <<>>

\* the step creates a field
FieldStep ==
  /\ Len(marks') = Len(marks) + 1
  /\ Last(marks').ev = "field"

(***************************************************************************)
(* C29: a step that reads a blank line outside a block comment leaves the  *)
(* scanner mode, the open schema, the objects and the table of schemas,    *)
(* the metadata and the pending annotations as they are, and empties the   *)
(* pending description lines exactly when no schema is open; so a step     *)
(* that creates a field gives it every annotation line and every           *)
(* description line read since the last header or field, blank lines in    *)
(* between or not.                                                         *)
(***************************************************************************)
C29_BlankLineKeepsBuffers ==
  [][/\ BlankStep =>
          /\ UNCHANGED <<inSchema, inDocstring, currentSchema, currentField, heap, schemas,
                         primarySchema, metadata, pendingAnnotations>>
          /\ pendingComments' = IF inSchema THEN pendingComments ELSE <<>>
     /\ FieldStep =>
          LET i == Len(input')
              k == PreviousMark(i)
              field == Last(heap'[currentSchema].Fields)
              cs == CommentLinesSince(input, k, i)
          IN /\ field.Immutable = (AnnotationLinesSince(input, k, i) # <<>>)
             /\ field.Description = Join([n \in 1..Len(cs) |-> Tok(input[cs[n]].val[1])], "\n")
    ]_vars

\* a field whose description comment is separated from it by a blank line
C29_Witness ==
  /\ Len(input) = 4
  /\ marks[1].ev = "header"
  /\ marks[2].ev = "comment"
  /\ marks[3].ev = "blank"
  /\ marks[4].ev = "field"
  /\ FieldAt(4).Description = <<"note">>
  /\ pendingComments = <<>>

\* the object nodes of a property tree: the node, the nodes of its
\* properties and the nodes of its items
RECURSIVE NodesOf(_)
NodesOf(node) ==
  {node}
    \cup UNION {NodesOf(node.Properties[n]) : n \in DOMAIN node.Properties}
    \cup (IF node.Items = Nil THEN {} ELSE NodesOf(node.Items[1]))

NoNameTwice(names) ==
  \A i, j \in 1..Len(names) : names[i] = names[j] => i = j

(***************************************************************************)
(* C30: in every object node of a generated document, spec.parameters and  *)
(* every schema expanded inside it, the required list holds no name twice  *)
(* and every name in it is a key of the node's properties, also when the   *)
(* source schema declares a field name more than once.                     *)
(***************************************************************************)
C30_RequiredNamesAreDistinctKeys ==
  Generated =>
    \A node \in NodesOf(ParametersOf(gen.xrd[1])) :
      /\ NoNameTwice(node.Required)
      /\ Range(node.Required) \subseteq DOMAIN node.Properties

=============================================================================
